---- MODULE Spec2Model ----
(***************************************************************************)
(* Model of the Holon spatial graph engine: the Pinia graph store          *)
(* (stores/graph.ts) with its IndexedDB mirror, the geometry resolver      *)
(* (composables/useGeometry.ts), the drag and docking traits               *)
(* (useDraggable.ts, useDockable.ts), the connection handler, the          *)
(* snapshot history (useUndoable.ts), the resize, anchor, selection,       *)
(* group and clipboard traits.                                             *)
(*                                                                         *)
(* Conventions.                                                            *)
(*  - nanoid() is a counter: every draw is a fresh id, never reused.       *)
(*  - A Record<string, T> is a function whose DOMAIN is its key set;       *)
(*    Object.values() enumerates it by ascending id (insertion order).     *)
(*  - null is NULL (0); ids are positive.                                  *)
(*  - Coordinates are integers (zoom 1, integer pointer positions).        *)
(*    A point handed to the hit test is carried in half units (x2 = 2x)    *)
(*    because the centre of a node is x + w/2.                             *)
(*  - An `await db...` issues the IndexedDB request at once (requests on   *)
(*    one table are served in the order issued, so the effect is applied   *)
(*    when issued) and suspends the caller; the rest of the async          *)
(*    function is a task in `tasks`, resumed by a later step.              *)
(***************************************************************************)
EXTENDS Integers, Sequences, FiniteSets, TLC

NULL == 0

\* ---- bounds of the model ------------------------------------------------
MaxNodes == 3      \* nanoid() draws for nodes
MaxEdges == 2      \* nanoid() draws for edges
MaxTasks == 1      \* async store operations in flight at once
MaxCoord == 50     \* |x|, |y| a drag may move a node to
MaxRestorations == 2   \* restorations in flight at once
MaxHistory == 2        \* options.maxHistory given to useUndoable
MaxSize == 400         \* w, h a resize may give a node
MaxResizes == 2        \* resize gestures started
MaxGroups == 2         \* nanoid() draws for groups
MaxCopied == 2         \* nodes created before any paste()
MaxPasteId == 6        \* nanoid() draws for nodes, those of paste() included

\* ---- program constants --------------------------------------------------
ContainerW == 200
ContainerH == 150
ShapeW == 100
ShapeH == 60
MinSize == 30          \* useResizable: options.minSize ?? 30
ChildMinSize == 20     \* resizeChildrenFromSnapshot: childMinSize
ScaleDen == 200        \* handleResizeMove: diagonal * 0.005
PASTE_OFFSET == 20     \* useClipboardable: PASTE_OFFSET

\* ---- inputs drawn by the environment --------------------------------------
DropXs == {0, 50}
DropYs == {0}
DragDxs == {0, 50}
DragDys == {0}
NodeTypes == {"container", "shape"}
\* (dx, dy) of a resize move; the diagonals are whole numbers.
ResizeDeltas == {<<0, 0>>, <<120, 160>>, <<-60, -80>>, <<-120, -160>>}

VARIABLES
  nodes,            \* graph.ts: nodes (in memory)
  edges,            \* graph.ts: edges (in memory)
  dbNodes,          \* db.nodes (IndexedDB table)
  dbEdges,          \* db.edges (IndexedDB table)
  nextNodeId,       \* nanoid(): next fresh node id
  nextEdgeId,       \* nanoid(): next fresh edge id
  tasks,            \* suspended async store operations
  isDragging,       \* useDraggable: isDragging, per NodeRenderer instance
  initialPos,       \* useDraggable: initialPos of the drag under way
  potentialParent,  \* useDockable: potentialParent, per NodeRenderer instance
  connectionSource, \* GraphCanvas / useConnectable: source of the connection under way
  history,          \* useUndoable: history (snapshots, oldest first)
  currentIndex,     \* useUndoable: currentIndex (0-based, -1 when empty)
  isUndoRedoAction, \* useUndoable: isUndoRedoAction
  debounceTimer,    \* useAutoSnapshot: number of setTimeout callbacks pending
  autoSnapshot,     \* useAutoSnapshot has been called (its watcher is installed)
  isResizing,       \* useResizable: isResizing, per NodeRenderer instance
  initialSize,      \* useResizable: initialSize of the resize under way
  initialChildrenGeometry, \* useResizable: initialChildrenGeometry (a Map)
  preserveAspectRatio,     \* useResizable: options.preserveAspectRatio
  resizeCount,             \* resize gestures started so far
  selectedNodeIds,  \* useSelectable: selectedNodeIds (a Set, in insertion order)
  focusedNodeId,    \* useSelectable: focusedNodeId
  groups,           \* useGroupable: groups (a Map), group id -> nodeIds
  groupIdOf,        \* data.groupId of the nodes whose data has the key: node id -> group id
  nextGroupId,      \* nanoid(): next fresh group id
  clipboard,        \* useClipboardable: clipboard
  pasting,          \* the paste() in flight: its local variables
  pasted,           \* what the paste() that returned last returned (observation only)
  cleared,          \* the fresh ids when Toolbar's handleClear ran last (observation only)
  lastOp            \* the handler that ran last (observation only)

vars == <<nodes, edges, dbNodes, dbEdges, nextNodeId, nextEdgeId, tasks,
          isDragging, initialPos, potentialParent, connectionSource,
          history, currentIndex, isUndoRedoAction, debounceTimer, autoSnapshot,
          isResizing, initialSize, initialChildrenGeometry, preserveAspectRatio,
          resizeCount, selectedNodeIds, focusedNodeId, groups, groupIdOf, nextGroupId,
          clipboard, pasting, pasted, cleared, lastOp>>

storeVars == <<nodes, edges, dbNodes, dbEdges, nextNodeId, nextEdgeId, tasks>>
dragVars == <<isDragging, initialPos, potentialParent>>
histVars == <<history, currentIndex, isUndoRedoAction>>
resizeVars == <<isResizing, initialSize, initialChildrenGeometry, resizeCount>>
selectVars == <<selectedNodeIds, focusedNodeId>>
groupVars == <<groups, groupIdOf, nextGroupId>>
clipVars == <<clipboard, pasting, pasted>>

NodeIds == 1..MaxNodes
EdgeIds == 1..MaxEdges
GroupIds == 1..MaxGroups

\* ---- records as key/value maps --------------------------------------------
Put(f, k, v) == [j \in (DOMAIN f) \cup {k} |-> IF j = k THEN v ELSE f[j]]
Remove(f, k) == [j \in (DOMAIN f) \ {k} |-> f[j]]
Empty == [j \in {} |-> NULL]

\* clipboard.value === null; no paste() in flight.
NoClipboard == [set |-> FALSE, nodes |-> <<>>, edges |-> <<>>]
NoPaste ==
  [active |-> FALSE, nodes |-> <<>>, edges |-> <<>>, todoNodes |-> <<>>,
   todoEdges |-> <<>>, idMapping |-> Empty, newNodeIds |-> <<>>]

\* { ...rec, ...updates }
Merge(rec, updates) ==
  [f \in DOMAIN rec |-> IF f \in DOMAIN updates THEN updates[f] ELSE rec[f]]

Min(S) == CHOOSE m \in S : \A o \in S : m <= o

RECURSIVE SortedSeq(_)
SortedSeq(S) == IF S = {} THEN <<>> ELSE <<Min(S)>> \o SortedSeq(S \ {Min(S)})

Geometry(x, y, w, h) == [x |-> x, y |-> y, w |-> w, h |-> h]

\* ======================= stores/graph.ts ===================================
\* The store and its IndexedDB mirror, as one value.
Store == [nodes |-> nodes, edges |-> edges, dbNodes |-> dbNodes, dbEdges |-> dbEdges]

SetStore(S) ==
  /\ nodes' = S.nodes
  /\ edges' = S.edges
  /\ dbNodes' = S.dbNodes
  /\ dbEdges' = S.dbEdges

\* createNode: nodes.value[id] = newNode; await db.nodes.put(newNode)
createNode(S, id, partialNode, parentId) ==
  LET newNode == [parentId |-> parentId, type |-> partialNode.type,
                  geometry |-> partialNode.geometry]
  IN [S EXCEPT !.nodes = Put(S.nodes, id, newNode),
               !.dbNodes = Put(S.dbNodes, id, newNode)]

\* updateNode: if (nodes.value[id]) { nodes.value[id] = {...old, ...updates};
\*             await db.nodes.update(id, updates) }
\* Dexie's update() changes the row only when the key is in the table.
updateNode(S, id, updates) ==
  IF id \in DOMAIN S.nodes
  THEN [S EXCEPT !.nodes = Put(S.nodes, id, Merge(S.nodes[id], updates)),
                 !.dbNodes = IF id \in DOMAIN S.dbNodes
                             THEN Put(S.dbNodes, id, Merge(S.dbNodes[id], updates))
                             ELSE S.dbNodes]
  ELSE S

\* createEdge: the store afterwards and what is returned (NULL, or the new
\* edge, given by its id).
createEdge(S, id, sourceId, targetId) ==
  IF sourceId \notin DOMAIN S.nodes \/ targetId \notin DOMAIN S.nodes
  THEN [store |-> S, result |-> NULL]
  ELSE LET exists ==
             \E e \in DOMAIN S.edges :
               \/ (S.edges[e].sourceId = sourceId /\ S.edges[e].targetId = targetId)
               \/ (S.edges[e].sourceId = targetId /\ S.edges[e].targetId = sourceId)
       IN IF exists
          THEN [store |-> S, result |-> NULL]
          ELSE LET newEdge == [sourceId |-> sourceId, targetId |-> targetId]
               IN [store |-> [S EXCEPT !.edges = Put(S.edges, id, newEdge),
                                       !.dbEdges = Put(S.dbEdges, id, newEdge)],
                   result |-> id]

\* deleteEdge: if (edges.value[id]) { delete edges.value[id]; await db.edges.delete(id) }
deleteEdge(S, id) ==
  IF id \in DOMAIN S.edges
  THEN [S EXCEPT !.edges = Remove(S.edges, id), !.dbEdges = Remove(S.dbEdges, id)]
  ELSE S

\* reparentNode: parentId only.
reparentNode(S, nodeId, newParentId) ==
  IF nodeId \in DOMAIN S.nodes
  THEN [S EXCEPT !.nodes = Put(S.nodes, nodeId,
                               [S.nodes[nodeId] EXCEPT !.parentId = newParentId]),
                 !.dbNodes = IF nodeId \in DOMAIN S.dbNodes
                             THEN Put(S.dbNodes, nodeId,
                                      [S.dbNodes[nodeId] EXCEPT !.parentId = newParentId])
                             ELSE S.dbNodes]
  ELSE S

\* clearAll up to its first await: both collections emptied, db.nodes.clear() issued.
clearAllStart(S) ==
  [S EXCEPT !.nodes = Empty, !.edges = Empty, !.dbNodes = Empty]

\* clearAll after its first await: db.edges.clear() issued.
clearAllResume(S) == [S EXCEPT !.dbEdges = Empty]

\* deleteNode, the part before the first await: collectChildren() and the list
\* of edges to delete. toDelete is [id, children depth first].
RECURSIVE collectChildren(_, _, _)
RECURSIVE collectEach(_, _, _)
collectChildren(ns, parentId, fuel) ==
  IF fuel = 0
  THEN <<>>
  ELSE collectEach(ns, SortedSeq({c \in DOMAIN ns : ns[c].parentId = parentId}), fuel)

collectEach(ns, children, fuel) ==
  IF children = <<>>
  THEN <<>>
  ELSE <<Head(children)>> \o collectChildren(ns, Head(children), fuel - 1)
                          \o collectEach(ns, Tail(children), fuel)

Range(q) == {q[i] : i \in 1..Len(q)}

\* deleteNode that looks for the deleted nodes among the sources of the edges only.
deleteNodeTask_sourcesOnly(S, id) ==
  LET toDelete == <<id>> \o collectChildren(S.nodes, id, Cardinality(DOMAIN S.nodes))
      edgesToDelete == SortedSeq({e \in DOMAIN S.edges :
                                    S.edges[e].sourceId \in Range(toDelete)})
  IN [op |-> "deleteNode", id |-> id, edgesToDelete |-> edgesToDelete,
      toDelete |-> toDelete, prog |-> <<>>, allNodes |-> Empty, allEdges |-> Empty]

deleteNodeTask(S, id) ==
  LET toDelete == <<id>> \o collectChildren(S.nodes, id, Cardinality(DOMAIN S.nodes))
      edgesToDelete == SortedSeq({e \in DOMAIN S.edges :
                                    \/ S.edges[e].sourceId \in Range(toDelete)
                                    \/ S.edges[e].targetId \in Range(toDelete)})
  IN [op |-> "deleteNode", id |-> id, edgesToDelete |-> edgesToDelete,
      toDelete |-> toDelete, prog |-> <<>>, allNodes |-> Empty, allEdges |-> Empty]

\* deleteNode between two awaits: one iteration of the edge loop, or of the
\* node loop once the edge loop is over.
deleteNodeStep(S, t) ==
  IF t.edgesToDelete # <<>>
  THEN [store |-> [S EXCEPT !.edges = Remove(S.edges, Head(t.edgesToDelete)),
                            !.dbEdges = Remove(S.dbEdges, Head(t.edgesToDelete))],
        task |-> [t EXCEPT !.edgesToDelete = Tail(t.edgesToDelete)]]
  ELSE [store |-> [S EXCEPT !.nodes = Remove(S.nodes, Head(t.toDelete)),
                            !.dbNodes = Remove(S.dbNodes, Head(t.toDelete))],
        task |-> [t EXCEPT !.toDelete = Tail(t.toDelete)]]

\* A task with nothing left to do: its last await only returns.
taskDone(t) == t.edgesToDelete = <<>> /\ t.toDelete = <<>> /\ t.prog = <<>>

\* deleteNode from its call to its return, no other handler running in between.
RECURSIVE deleteNodeRun(_, _)
deleteNodeRun(S, t) ==
  IF taskDone(t)
  THEN S
  ELSE deleteNodeRun(deleteNodeStep(S, t).store, deleteNodeStep(S, t).task)

\* finishConnection without the test that the target is not the source.
finishConnection_noSelfTest(S, id, source, targetId) ==
  IF source # NULL
  THEN createEdge(S, id, source, targetId)
  ELSE [store |-> S, result |-> NULL]

\* GraphCanvas.finishConnection / useConnectable.finishConnection: the
\* createEdge call behind its guard.
finishConnection(S, id, source, targetId) ==
  IF source # NULL /\ source # targetId
  THEN createEdge(S, id, source, targetId)
  ELSE [store |-> S, result |-> NULL]

RemoveAt(q, i) == SubSeq(q, 1, i - 1) \o SubSeq(q, i + 1, Len(q))

\* loadFromDB after its two reads: both collections rebuilt from what was read.
loadFromDBAssign(S, allNodes, allEdges) ==
  [S EXCEPT !.nodes = allNodes, !.edges = allEdges]

\* ======================= composables/traits/useUndoable.ts =================
\* The history as one value; currentIndex counts from 0 as in the source, so
\* history.value[currentIndex] is history[currentIndex + 1] here.
Hist == [history |-> history, currentIndex |-> currentIndex]

\* canUndo that lets the cursor leave the first entry.
canUndo_fromFirst(H) == H.currentIndex >= 0

canUndo(H) == H.currentIndex > 0
canRedo(H) == H.currentIndex < Len(H.history) - 1

\* snapshot() without the test of isUndoRedoAction.
snapshot_noGuard(H, flag, ns, es, maxHistory) ==
  LET snap == [nodes |-> ns, edges |-> es]
      kept == IF H.currentIndex < Len(H.history) - 1
              THEN SubSeq(H.history, 1, H.currentIndex + 1)
              ELSE H.history
      pushed == Append(kept, snap)
      sliced == IF Len(pushed) > maxHistory
                THEN SubSeq(pushed, Len(pushed) - maxHistory + 1, Len(pushed))
                ELSE pushed
  IN [history |-> sliced, currentIndex |-> Len(sliced) - 1]

\* snapshot() that never drops the oldest entries.
snapshot_noEviction(H, flag, ns, es, maxHistory) ==
  IF flag
  THEN H
  ELSE LET snap == [nodes |-> ns, edges |-> es]
           kept == IF H.currentIndex < Len(H.history) - 1
                   THEN SubSeq(H.history, 1, H.currentIndex + 1)
                   ELSE H.history
           pushed == Append(kept, snap)
       IN [history |-> pushed, currentIndex |-> Len(pushed) - 1]

\* snapshot() that keeps the entries after the cursor.
snapshot_keepsFuture(H, flag, ns, es, maxHistory) ==
  IF flag
  THEN H
  ELSE LET snap == [nodes |-> ns, edges |-> es]
           pushed == Append(H.history, snap)
           sliced == IF Len(pushed) > maxHistory
                     THEN SubSeq(pushed, Len(pushed) - maxHistory + 1, Len(pushed))
                     ELSE pushed
       IN [history |-> sliced, currentIndex |-> Len(sliced) - 1]

\* snapshot(): the history afterwards.
snapshot(H, flag, ns, es, maxHistory) ==
  IF flag
  THEN H
  ELSE LET snap == [nodes |-> ns, edges |-> es]
           kept == IF H.currentIndex < Len(H.history) - 1
                   THEN SubSeq(H.history, 1, H.currentIndex + 1)
                   ELSE H.history
           pushed == Append(kept, snap)
           sliced == IF Len(pushed) > maxHistory
                     THEN SubSeq(pushed, Len(pushed) - maxHistory + 1, Len(pushed))
                     ELSE pushed
       IN [history |-> sliced, currentIndex |-> Len(sliced) - 1]

\* clearHistory() that leaves the cursor where it was before snapshot().
clearHistory_keepsCursor(H, flag, ns, es, maxHistory) ==
  snapshot([history |-> <<>>, currentIndex |-> H.currentIndex], flag, ns, es, maxHistory)

\* clearHistory(): the history afterwards.
clearHistory(H, flag, ns, es, maxHistory) ==
  snapshot([history |-> <<>>, currentIndex |-> -1], flag, ns, es, maxHistory)

\* One step of a suspended handler that is written as a list of steps.
NoNode == [parentId |-> NULL, type |-> "", geometry |-> Geometry(0, 0, 0, 0)]
Ins(name) == [ins |-> name, node |-> NoNode, sourceId |-> NULL, targetId |-> NULL]

\* What restoreSnapshot(snap) still has to do once clearAll has emptied the
\* collections and issued db.nodes.clear(): the rest of clearAll, one createNode
\* per node and one createEdge per edge of the snapshot, then loadFromDB.
restoreProgram(snap) ==
  <<Ins("dbEdgesClear")>>
  \o [i \in 1..Cardinality(DOMAIN snap.nodes) |->
        [Ins("createNode") EXCEPT !.node = snap.nodes[SortedSeq(DOMAIN snap.nodes)[i]]]]
  \o [i \in 1..Cardinality(DOMAIN snap.edges) |->
        [Ins("createEdge") EXCEPT
           !.sourceId = snap.edges[SortedSeq(DOMAIN snap.edges)[i]].sourceId,
           !.targetId = snap.edges[SortedSeq(DOMAIN snap.edges)[i]].targetId]]
  \o <<Ins("readNodes"), Ins("readEdges"), Ins("assign")>>

restoreTask(snap) ==
  [op |-> "restoreSnapshot", id |-> NULL, edgesToDelete |-> <<>>, toDelete |-> <<>>,
   prog |-> restoreProgram(snap), allNodes |-> Empty, allEdges |-> Empty]

\* restoreSnapshot from the return of one awaited database request to the
\* issue of the next: the store, the task and the id counters afterwards.
\* A createEdge that returns null issues no request and the loop goes on.
RECURSIVE restoreStep(_, _, _, _)
restoreStep(S, t, nid, eid) ==
  LET i == Head(t.prog)
      rest == [t EXCEPT !.prog = Tail(t.prog)]
      out(S1, t1, nid1, eid1) == [store |-> S1, task |-> t1, nid |-> nid1, eid |-> eid1]
  IN CASE i.ins = "dbEdgesClear" -> out(clearAllResume(S), rest, nid, eid)
       [] i.ins = "createNode" ->
            out(createNode(S, nid, i.node, i.node.parentId), rest, nid + 1, eid)
       [] i.ins = "createEdge" ->
            IF createEdge(S, eid, i.sourceId, i.targetId).result = NULL
            THEN restoreStep(S, rest, nid, eid)
            ELSE out(createEdge(S, eid, i.sourceId, i.targetId).store, rest, nid, eid + 1)
       [] i.ins = "readNodes" -> out(S, [rest EXCEPT !.allNodes = S.dbNodes], nid, eid)
       [] i.ins = "readEdges" -> out(S, [rest EXCEPT !.allEdges = S.dbEdges], nid, eid)
       [] i.ins = "assign" -> out(loadFromDBAssign(S, t.allNodes, t.allEdges), rest, nid, eid)

\* restoreSnapshot from its call to its return, no other handler in between.
RECURSIVE restoreRun(_, _, _, _)
restoreRun(S, t, nid, eid) ==
  IF t.prog = <<>>
  THEN S
  ELSE LET r == restoreStep(S, t, nid, eid)
       IN restoreRun(r.store, r.task, r.nid, r.eid)

\* ======================= composables/useGeometry.ts ========================
\* The parent walks stop after Fuel(ns) hops: on an acyclic store they end
\* before that; on a cyclic one the source loops for ever.
Fuel(ns) == Cardinality(DOMAIN ns)

RECURSIVE absoluteWalk(_, _, _, _, _)
absoluteWalk(ns, currentNode, absoluteX, absoluteY, fuel) ==
  IF currentNode.parentId = NULL \/ fuel = 0
  THEN [x |-> absoluteX, y |-> absoluteY]
  ELSE IF currentNode.parentId \notin DOMAIN ns
       THEN [x |-> absoluteX, y |-> absoluteY]
       ELSE LET parentNode == ns[currentNode.parentId]
            IN absoluteWalk(ns, parentNode, absoluteX + parentNode.geometry.x,
                            absoluteY + parentNode.geometry.y, fuel - 1)

\* getNodeAbsolutePosition that gives up, with (0, 0), when a parentId of the
\* chain is not in the store.
RECURSIVE absoluteWalk_strict(_, _, _, _, _)
absoluteWalk_strict(ns, currentNode, absoluteX, absoluteY, fuel) ==
  IF currentNode.parentId = NULL \/ fuel = 0
  THEN [x |-> absoluteX, y |-> absoluteY]
  ELSE IF currentNode.parentId \notin DOMAIN ns
       THEN [x |-> 0, y |-> 0]
       ELSE LET parentNode == ns[currentNode.parentId]
            IN absoluteWalk_strict(ns, parentNode, absoluteX + parentNode.geometry.x,
                                   absoluteY + parentNode.geometry.y, fuel - 1)

getNodeAbsolutePosition_strict(ns, nodeId) ==
  IF nodeId \notin DOMAIN ns
  THEN [x |-> 0, y |-> 0]
  ELSE absoluteWalk_strict(ns, ns[nodeId], ns[nodeId].geometry.x,
                           ns[nodeId].geometry.y, Fuel(ns))

\* getNodeAbsolutePosition that adds the direct parent only.
getNodeAbsolutePosition_parentOnly(ns, nodeId) ==
  IF nodeId \notin DOMAIN ns
  THEN [x |-> 0, y |-> 0]
  ELSE absoluteWalk(ns, ns[nodeId], ns[nodeId].geometry.x, ns[nodeId].geometry.y, 1)

getNodeAbsolutePosition(ns, nodeId) ==
  IF nodeId \notin DOMAIN ns
  THEN [x |-> 0, y |-> 0]
  ELSE absoluteWalk(ns, ns[nodeId], ns[nodeId].geometry.x, ns[nodeId].geometry.y,
                    Fuel(ns))

\* absX2, absY2: the point in half units.
isPointInsideNode(ns, nodeId, absX2, absY2) ==
  IF nodeId \notin DOMAIN ns
  THEN FALSE
  ELSE LET node == ns[nodeId]
           nodePos == getNodeAbsolutePosition(ns, nodeId)
       IN /\ absX2 >= 2 * nodePos.x
          /\ absX2 <= 2 * (nodePos.x + node.geometry.w)
          /\ absY2 >= 2 * nodePos.y
          /\ absY2 <= 2 * (nodePos.y + node.geometry.h)

RECURSIVE descendantWalk(_, _, _, _)
descendantWalk(ns, current, potentialAncestorId, fuel) ==
  IF current \notin DOMAIN ns \/ fuel = 0
  THEN FALSE
  ELSE IF ns[current].parentId = NULL
       THEN FALSE
       ELSE IF ns[current].parentId = potentialAncestorId
            THEN TRUE
            ELSE descendantWalk(ns, ns[current].parentId, potentialAncestorId, fuel - 1)

\* isDescendantOf that looks at the direct parent only.
isDescendantOf_parentOnly(ns, nodeId, potentialAncestorId) ==
  nodeId \in DOMAIN ns /\ ns[nodeId].parentId = potentialAncestorId

isDescendantOf(ns, nodeId, potentialAncestorId) ==
  descendantWalk(ns, nodeId, potentialAncestorId, Fuel(ns))

RECURSIVE depthWalk(_, _, _, _)
depthWalk(ns, current, depth, fuel) ==
  IF current \notin DOMAIN ns \/ fuel = 0
  THEN depth
  ELSE IF ns[current].parentId = NULL
       THEN depth
       ELSE depthWalk(ns, ns[current].parentId, depth + 1, fuel - 1)

getNodeDepth(ns, nodeId) == depthWalk(ns, nodeId, 0, Fuel(ns))

\* dropCandidates without the `continue` on descendants of the excluded node.
dropCandidates_noDescendantTest(ns, absX2, absY2, excludeNodeId) ==
  {c \in DOMAIN ns :
     /\ ns[c].type = "container"
     /\ c # excludeNodeId
     /\ isPointInsideNode(ns, c, absX2, absY2)}

\* The containers the loop of findContainerAtPoint can return: not the excluded
\* node, not one of its descendants, and holding the point.
dropCandidates(ns, absX2, absY2, excludeNodeId) ==
  {c \in DOMAIN ns :
     /\ ns[c].type = "container"
     /\ c # excludeNodeId
     /\ ~(excludeNodeId # NULL /\ isDescendantOf(ns, c, excludeNodeId))
     /\ isPointInsideNode(ns, c, absX2, absY2)}

\* findContainerAtPoint without the sort by depth: the first candidate in
\* Object.values order.
findContainerAtPoint_unsorted(ns, absX2, absY2, excludeNodeId) ==
  LET cands == dropCandidates(ns, absX2, absY2, excludeNodeId)
  IN IF cands = {} THEN NULL ELSE Min(cands)

\* Sorted by depth, deepest first (a stable sort: equal depths stay in
\* Object.values order), the first candidate is returned.
findContainerAtPoint(ns, absX2, absY2, excludeNodeId) ==
  LET cands == dropCandidates(ns, absX2, absY2, excludeNodeId)
      deepest == {c \in cands :
                    \A o \in cands : getNodeDepth(ns, o) <= getNodeDepth(ns, c)}
  IN IF cands = {} THEN NULL ELSE Min(deepest)

\* convertCoordinates that returns the absolute position whatever the new parent.
convertCoordinates_noSubtraction(ns, nodeId, fromParentId, toParentId) ==
  IF nodeId \in DOMAIN ns
  THEN getNodeAbsolutePosition(ns, nodeId)
  ELSE [x |-> 0, y |-> 0]

\* convertCoordinates that subtracts the new parent's own (x, y) instead of its
\* absolute position.
convertCoordinates_parentRelative(ns, nodeId, fromParentId, toParentId) ==
  IF nodeId \notin DOMAIN ns
  THEN [x |-> 0, y |-> 0]
  ELSE LET absolutePos == getNodeAbsolutePosition(ns, nodeId)
       IN IF toParentId = NULL \/ toParentId \notin DOMAIN ns
          THEN [x |-> absolutePos.x, y |-> absolutePos.y]
          ELSE [x |-> absolutePos.x - ns[toParentId].geometry.x,
                y |-> absolutePos.y - ns[toParentId].geometry.y]

convertCoordinates(ns, nodeId, fromParentId, toParentId) ==
  IF nodeId \notin DOMAIN ns
  THEN [x |-> 0, y |-> 0]
  ELSE LET absolutePos == getNodeAbsolutePosition(ns, nodeId)
       IN IF toParentId = NULL
          THEN [x |-> absolutePos.x, y |-> absolutePos.y]
          ELSE LET newParentPos == getNodeAbsolutePosition(ns, toParentId)
               IN [x |-> absolutePos.x - newParentPos.x,
                   y |-> absolutePos.y - newParentPos.y]

\* ======================= traits/useDockable.ts =============================
\* updatePotentialParent of the instance of nodeId; returns the new value of
\* its potentialParent.
updatePotentialParent(ns, nodeId, dragging, current) ==
  IF ~dragging
  THEN NULL
  ELSE IF nodeId \notin DOMAIN ns
       THEN current
       ELSE LET node == ns[nodeId]
                absPos == getNodeAbsolutePosition(ns, nodeId)
                centerX2 == 2 * absPos.x + node.geometry.w
                centerY2 == 2 * absPos.y + node.geometry.h
            IN findContainerAtPoint(ns, centerX2, centerY2, nodeId)

\* commitDocking that writes the new parentId alone, the geometry being left
\* for a second write.
commitDocking_parentFirst(S, nodeId, pp) ==
  IF pp = NULL \/ nodeId \notin DOMAIN S.nodes
  THEN S
  ELSE IF pp # S.nodes[nodeId].parentId
       THEN updateNode(S, nodeId, [parentId |-> pp])
       ELSE S

\* commitDocking that does not compare the candidate with the current parent
\* and writes the node's absolute position as its new (x, y).
commitDocking_alwaysAbsolute(S, nodeId, pp) ==
  IF pp = NULL \/ nodeId \notin DOMAIN S.nodes
  THEN S
  ELSE LET node == S.nodes[nodeId]
           newCoords == convertCoordinates(S.nodes, nodeId, node.parentId, NULL)
       IN updateNode(S, nodeId,
            [parentId |-> pp,
             geometry |-> [node.geometry EXCEPT !.x = newCoords.x,
                                                !.y = newCoords.y]])

\* commitDocking of the instance of nodeId whose potentialParent is pp:
\* the store afterwards.
commitDocking(S, nodeId, pp) ==
  IF pp = NULL
  THEN S
  ELSE IF nodeId \notin DOMAIN S.nodes
       THEN S
       ELSE LET node == S.nodes[nodeId]
                currentParent == node.parentId
            IN IF pp # currentParent
               THEN LET newCoords == convertCoordinates(S.nodes, nodeId, currentParent, pp)
                    IN updateNode(S, nodeId,
                         [parentId |-> pp,
                          geometry |-> [node.geometry EXCEPT !.x = newCoords.x,
                                                             !.y = newCoords.y]])
               ELSE S

\* potentialParent after commitDocking: reset, except on the early return
\* taken when the node is gone.
potentialParentAfterCommit(ns, nodeId, pp) ==
  IF pp # NULL /\ nodeId \notin DOMAIN ns THEN pp ELSE NULL

\* undockFromParent: the store afterwards.
undockFromParent(S, nodeId) ==
  IF nodeId \notin DOMAIN S.nodes
  THEN S
  ELSE LET node == S.nodes[nodeId]
       IN IF node.parentId = NULL
          THEN S
          ELSE LET newCoords == convertCoordinates(S.nodes, nodeId, node.parentId, NULL)
               IN updateNode(S, nodeId,
                    [parentId |-> NULL,
                     geometry |-> [node.geometry EXCEPT !.x = newCoords.x,
                                                        !.y = newCoords.y]])

\* ======================= composables/traits/useResizable ===================
\* A scale factor is carried as the fraction num / den; a product with it is
\* the whole part of the exact result.
Max(a, b) == IF a >= b THEN a ELSE b
Scale(num, den) == [num |-> num, den |-> den]
Times(v, scale) == (v * scale.num) \div scale.den

\* Math.sqrt for the whole squares the resize deltas give.
Sqrt(n) == CHOOSE d \in 0..(2 * MaxSize) : d * d = n

\* handleResizeMove: newW and newH from the size at resize-start.
resizeTarget(initial, dx, dy, preserve, minSize) ==
  IF preserve
  THEN LET diagonal == Sqrt(dx * dx + dy * dy)
           direction == IF dx + dy > 0 THEN 1 ELSE -1
           scale == Scale(ScaleDen + direction * diagonal, ScaleDen)
           newW == Max(minSize, Times(initial.w, scale))
           newH == Max(minSize, Times(initial.h, scale))
       IN IF newW * initial.h > newH * initial.w
          THEN [w |-> (newH * initial.w) \div initial.h, h |-> newH]
          ELSE [w |-> newW, h |-> (newW * initial.h) \div initial.w]
  ELSE [w |-> Max(minSize, initial.w + dx), h |-> Max(minSize, initial.h + dy)]

\* collectChildrenGeometry: the geometry of every descendant, by id.
\* collectChildrenGeometry without the recursive call: direct children only.
collectChildrenGeometry_directOnly(ns, parentId) ==
  [c \in {m \in DOMAIN ns : ns[m].parentId = parentId} |-> ns[c].geometry]

collectChildrenGeometry(ns, parentId) ==
  [c \in Range(collectChildren(ns, parentId, Cardinality(DOMAIN ns))) |-> ns[c].geometry]

\* resizeChildrenFromSnapshot that scales the geometry the child has now.
RECURSIVE resizeChildrenFromSnapshot_fromCurrent(_, _, _, _, _, _)
RECURSIVE resizeEachChild_fromCurrent(_, _, _, _, _, _)
resizeChildrenFromSnapshot_fromCurrent(S, parentId, scaleX, scaleY, initialMap, fuel) ==
  IF fuel = 0
  THEN S
  ELSE resizeEachChild_fromCurrent(S, SortedSeq({c \in DOMAIN S.nodes : S.nodes[c].parentId = parentId}),
                       scaleX, scaleY, initialMap, fuel)

resizeEachChild_fromCurrent(S, children, scaleX, scaleY, initialMap, fuel) ==
  IF children = <<>>
  THEN S
  ELSE LET child == Head(children)
           current == S.nodes[child].geometry
           S1 == IF child \notin DOMAIN initialMap
                 THEN S
                 ELSE resizeChildrenFromSnapshot_fromCurrent(
                        updateNode(S, child,
                          [geometry |-> Geometry(Times(current.x, scaleX),
                                                 Times(current.y, scaleY),
                                                 Max(ChildMinSize, Times(current.w, scaleX)),
                                                 Max(ChildMinSize, Times(current.h, scaleY)))]),
                        child, scaleX, scaleY, initialMap, fuel - 1)
       IN resizeEachChild_fromCurrent(S1, Tail(children), scaleX, scaleY, initialMap, fuel)

\* resizeChildrenFromSnapshot: every child found in the snapshot is rewritten
\* from its initial geometry, then its own children.
RECURSIVE resizeChildrenFromSnapshot(_, _, _, _, _, _)
RECURSIVE resizeEachChild(_, _, _, _, _, _)
resizeChildrenFromSnapshot(S, parentId, scaleX, scaleY, initialMap, fuel) ==
  IF fuel = 0
  THEN S
  ELSE resizeEachChild(S, SortedSeq({c \in DOMAIN S.nodes : S.nodes[c].parentId = parentId}),
                       scaleX, scaleY, initialMap, fuel)

resizeEachChild(S, children, scaleX, scaleY, initialMap, fuel) ==
  IF children = <<>>
  THEN S
  ELSE LET child == Head(children)
           S1 == IF child \notin DOMAIN initialMap
                 THEN S
                 ELSE resizeChildrenFromSnapshot(
                        updateNode(S, child,
                          [geometry |-> Geometry(Times(initialMap[child].x, scaleX),
                                                 Times(initialMap[child].y, scaleY),
                                                 Max(ChildMinSize, Times(initialMap[child].w, scaleX)),
                                                 Max(ChildMinSize, Times(initialMap[child].h, scaleY)))]),
                        child, scaleX, scaleY, initialMap, fuel - 1)
       IN resizeEachChild(S1, Tail(children), scaleX, scaleY, initialMap, fuel)

\* handleResizeMove once isResizing has been tested.
handleResizeMove(S, nodeId, dx, dy, preserve, initial, initialMap) ==
  IF nodeId \notin DOMAIN S.nodes
  THEN S
  ELSE LET new == resizeTarget(initial, dx, dy, preserve, MinSize)
       IN resizeChildrenFromSnapshot(
            updateNode(S, nodeId,
              [geometry |-> [S.nodes[nodeId].geometry EXCEPT !.w = new.w, !.h = new.h]]),
            nodeId, Scale(new.w, initial.w), Scale(new.h, initial.h), initialMap,
            Cardinality(DOMAIN S.nodes))

\* ======================= composables/traits/useAnchorable.ts ===============
\* Points are given in half units (x2 = 2 * x), so that centres are whole
\* numbers; a ratio is a fraction num / den, Infinity the fraction 1 / 0, and
\* products are exact.
Abs(v) == IF v >= 0 THEN v ELSE -v
Infinity == Scale(1, 0)

\* Math.min of two ratios that are not negative.
MinScale(a, b) ==
  IF a.den = 0 THEN b
  ELSE IF b.den = 0 THEN a
  ELSE IF a.num * b.den <= b.num * a.den THEN a ELSE b

\* Math.max of the same.
MaxScale(a, b) ==
  IF a.den = 0 THEN a
  ELSE IF b.den = 0 THEN b
  ELSE IF a.num * b.den >= b.num * a.den THEN a ELSE b

\* a < b for two ratios.
LessScale(a, b) ==
  IF a.den = 0 THEN FALSE
  ELSE IF b.den = 0 THEN TRUE
  ELSE a.num * b.den < b.num * a.den

\* c + d * scale for c = c2 / 2 and d = d2 / 2: the value num / den.
AlongRay(c2, d2, scale) ==
  [num |-> c2 * scale.den + d2 * scale.num, den |-> 2 * scale.den]

\* calculateEdgeIntersection that takes the larger of the two ratios.
calculateEdgeIntersection_lastEdge(ns, nodeId, targetX2, targetY2) ==
  IF nodeId \notin DOMAIN ns
  THEN [x |-> Scale(0, 1), y |-> Scale(0, 1)]
  ELSE LET node == ns[nodeId]
           abs == getNodeAbsolutePosition(ns, nodeId)
           w == node.geometry.w
           h == node.geometry.h
           cx2 == 2 * abs.x + w
           cy2 == 2 * abs.y + h
           dx2 == targetX2 - cx2
           dy2 == targetY2 - cy2
       IN IF dx2 = 0 /\ dy2 = 0
          THEN [x |-> Scale(cx2, 2), y |-> Scale(cy2, 2)]
          ELSE LET scaleX == IF Abs(dx2) > 0 THEN Scale(w, Abs(dx2)) ELSE Scale(0, 1)
                   scaleY == IF Abs(dy2) > 0 THEN Scale(h, Abs(dy2)) ELSE Scale(0, 1)
                   scale == MaxScale(scaleX, scaleY)
               IN [x |-> AlongRay(cx2, dx2, scale), y |-> AlongRay(cy2, dy2, scale)]

\* calculateEdgeIntersection(nodeId, targetX, targetY, nodes): (w / 2) / |dx|
\* is w / |dx2|.
calculateEdgeIntersection(ns, nodeId, targetX2, targetY2) ==
  IF nodeId \notin DOMAIN ns
  THEN [x |-> Scale(0, 1), y |-> Scale(0, 1)]
  ELSE LET node == ns[nodeId]
           abs == getNodeAbsolutePosition(ns, nodeId)
           w == node.geometry.w
           h == node.geometry.h
           cx2 == 2 * abs.x + w
           cy2 == 2 * abs.y + h
           dx2 == targetX2 - cx2
           dy2 == targetY2 - cy2
       IN IF dx2 = 0 /\ dy2 = 0
          THEN [x |-> Scale(cx2, 2), y |-> Scale(cy2, 2)]
          ELSE LET scaleX == IF Abs(dx2) > 0 THEN Scale(w, Abs(dx2)) ELSE Infinity
                   scaleY == IF Abs(dy2) > 0 THEN Scale(h, Abs(dy2)) ELSE Infinity
                   scale == MinScale(scaleX, scaleY)
               IN [x |-> AlongRay(cx2, dx2, scale), y |-> AlongRay(cy2, dy2, scale)]

\* useAnchorable.getEdgeIntersection(targetX, targetY) of the instance of nodeId.
getEdgeIntersection(ns, nodeId, targetX2, targetY2) ==
  IF nodeId \notin DOMAIN ns
  THEN [x |-> Scale(0, 1), y |-> Scale(0, 1), position |-> "center"]
  ELSE LET node == ns[nodeId]
           abs == getNodeAbsolutePosition(ns, nodeId)
           w == node.geometry.w
           h == node.geometry.h
           cx2 == 2 * abs.x + w
           cy2 == 2 * abs.y + h
           dx2 == targetX2 - cx2
           dy2 == targetY2 - cy2
       IN IF dx2 = 0 /\ dy2 = 0
          THEN [x |-> Scale(cx2, 2), y |-> Scale(cy2, 2), position |-> "center"]
          ELSE LET scaleX == IF Abs(dx2) > 0 THEN Scale(w, Abs(dx2)) ELSE Infinity
                   scaleY == IF Abs(dy2) > 0 THEN Scale(h, Abs(dy2)) ELSE Infinity
                   scale == MinScale(scaleX, scaleY)
                   position ==
                     IF LessScale(scaleX, scaleY)
                     THEN (IF dx2 > 0 THEN "east" ELSE "west")
                     ELSE IF LessScale(scaleY, scaleX)
                          THEN (IF dy2 > 0 THEN "south" ELSE "north")
                          ELSE IF dx2 > 0 /\ dy2 > 0 THEN "south-east"
                               ELSE IF dx2 > 0 /\ dy2 < 0 THEN "north-east"
                               ELSE IF dx2 < 0 /\ dy2 > 0 THEN "south-west"
                               ELSE "north-west"
               IN [x |-> AlongRay(cx2, dx2, scale), y |-> AlongRay(cy2, dy2, scale),
                   position |-> position]

\* ======================= composables/traits/useSelectable.ts ===============
\* select(addToSelection) of the instance of n: the selection afterwards.
select(selected, n, addToSelection) ==
  LET kept == IF addToSelection THEN selected ELSE <<>>
  IN IF n \in Range(kept) THEN kept ELSE Append(kept, n)

\* deselect() of the instance of n.
deselect(selected, n) == SelectSeq(selected, LAMBDA m : m # n)

\* ======================= composables/traits/useGroupable.ts ================
\* The groups and the data.groupId of the nodes, as one value.
Groups == [groups |-> groups, groupIdOf |-> groupIdOf]

\* node?.data?.groupId ?? null
groupId(G, n) == IF n \in DOMAIN G.groupIdOf THEN G.groupIdOf[n] ELSE NULL

\* graphStore.updateNode(nodeId, { data: { ...node.data, groupId: id } }) for
\* every node of ids that is in the store.
RECURSIVE setGroupIds(_, _, _, _)
setGroupIds(ns, groupIds, ids, id) ==
  IF ids = {}
  THEN groupIds
  ELSE LET n == Min(ids)
       IN setGroupIds(ns, IF n \in DOMAIN ns THEN Put(groupIds, n, id) ELSE groupIds,
                      ids \ {n}, id)

\* `delete newData.groupId` and updateNode for every node of ids that is in the store.
RECURSIVE deleteGroupIds(_, _, _)
deleteGroupIds(ns, groupIds, ids) ==
  IF ids = {}
  THEN groupIds
  ELSE LET n == Min(ids)
       IN deleteGroupIds(ns, IF n \in DOMAIN ns THEN Remove(groupIds, n) ELSE groupIds,
                         ids \ {n})

\* createGroup(): the groups afterwards and the id returned (NULL for null).
createGroup(ns, G, selected, id) ==
  IF Len(selected) < 2
  THEN [state |-> G, result |-> NULL]
  ELSE [state |-> [groups |-> Put(G.groups, id, Range(selected)),
                   groupIdOf |-> setGroupIds(ns, G.groupIdOf, Range(selected), id)],
        result |-> id]

\* dissolveGroupById(groupId).
dissolveGroupById(ns, G, g) ==
  IF g \notin DOMAIN G.groups
  THEN G
  ELSE [groups |-> Remove(G.groups, g),
        groupIdOf |-> deleteGroupIds(ns, G.groupIdOf, G.groups[g])]

\* addToGroup(targetGroupId) of the instance of n.
addToGroup(ns, G, n, targetGroupId) ==
  IF targetGroupId \notin DOMAIN G.groups
  THEN G
  ELSE [groups |-> [G.groups EXCEPT ![targetGroupId] = @ \cup {n}],
        groupIdOf |-> setGroupIds(ns, G.groupIdOf, {n}, targetGroupId)]

\* removeFromGroup() of the instance of n.
removeFromGroup(ns, G, n) ==
  LET gid == groupId(G, n)
  IN IF gid = NULL
     THEN G
     ELSE IF gid \in DOMAIN G.groups
          THEN LET left == [G EXCEPT !.groups[gid] = @ \ {n}]
               IN IF Cardinality(left.groups[gid]) <= 1
                  THEN dissolveGroupById(ns, left, gid)
                  ELSE [left EXCEPT !.groupIdOf = deleteGroupIds(ns, left.groupIdOf, {n})]
          ELSE [G EXCEPT !.groupIdOf = deleteGroupIds(ns, G.groupIdOf, {n})]

\* dissolveGroup() of the instance of n.
dissolveGroup(ns, G, n) ==
  IF groupId(G, n) = NULL THEN G ELSE dissolveGroupById(ns, G, groupId(G, n))

\* ======================= composables/traits/useClipboardable.ts ============
\* collectNodesWithDescendants: acc is [result, visited]; a node is pushed
\* before its children, and a node met twice is skipped.
RECURSIVE collect(_, _, _)
RECURSIVE collectAll(_, _, _)
collect(ns, id, acc) ==
  IF id \in acc.visited
  THEN acc
  ELSE LET seen == [acc EXCEPT !.visited = @ \cup {id}]
       IN IF id \notin DOMAIN ns
          THEN seen
          ELSE collectAll(ns, SortedSeq({c \in DOMAIN ns : ns[c].parentId = id}),
                          [seen EXCEPT !.result = Append(@, [id |-> id,
                                                             parentId |-> ns[id].parentId,
                                                             type |-> ns[id].type,
                                                             geometry |-> ns[id].geometry])])

collectAll(ns, ids, acc) ==
  IF ids = <<>>
  THEN acc
  ELSE collectAll(ns, Tail(ids), collect(ns, Head(ids), acc))

collectNodesWithDescendants(ns, nodeIds) ==
  collectAll(ns, nodeIds, [result |-> <<>>, visited |-> {}]).result

\* collectEdges(nodeIds): the edges with both ends in nodeIds.
collectEdges(es, nodeIds) ==
  LET ids == SortedSeq({e \in DOMAIN es : es[e].sourceId \in nodeIds /\ es[e].targetId \in nodeIds})
  IN [i \in 1..Len(ids) |-> [id |-> ids[i], sourceId |-> es[ids[i]].sourceId,
                             targetId |-> es[ids[i]].targetId]]

\* copy() with no argument: the clipboard afterwards.
copy(S, clip, selected) ==
  IF Len(selected) = 0
  THEN clip
  ELSE LET copied == collectNodesWithDescendants(S.nodes, selected)
           nodeIdSet == {copied[i].id : i \in 1..Len(copied)}
       IN [set |-> TRUE, nodes |-> copied, edges |-> collectEdges(S.edges, nodeIdSet)]

\* paste(): its local variables on entry.
pasteBegin(clip) ==
  [active |-> TRUE, nodes |-> clip.nodes, edges |-> clip.edges, todoNodes |-> clip.nodes,
   todoEdges |-> clip.edges, idMapping |-> Empty, newNodeIds |-> <<>>]

\* The selection paste() sets before it returns: the copies of the roots.
pasteSelection(P) ==
  LET rootNodes == SelectSeq(P.nodes, LAMBDA n : n.parentId = NULL
                                                \/ n.parentId \notin DOMAIN P.idMapping)
      RECURSIVE asSet(_, _)
      asSet(q, acc) ==
        IF q = <<>>
        THEN acc
        ELSE asSet(Tail(q), IF P.idMapping[Head(q).id] \in Range(acc)
                            THEN acc
                            ELSE Append(acc, P.idMapping[Head(q).id]))
  IN asSet(rootNodes, <<>>)

\* paste() from its call, or from the return of an awaited createNode or
\* createEdge, to its next await or to its return. nid is the next draw of
\* nanoid(): paste draws newId, then graphStore.createNode draws the id under
\* which it stores the node. A createEdge that returns null issues no request
\* and the loop goes on.
RECURSIVE pasteStep(_, _, _, _, _, _)
pasteStep(S, P, nid, eid, offsetX, offsetY) ==
  LET out(S1, P1, nid1, eid1, done) ==
        [store |-> S1, paste |-> P1, nid |-> nid1, eid |-> eid1, done |-> done]
  IN IF P.todoNodes # <<>>
     THEN LET node == Head(P.todoNodes)
              newId == nid
              idMapping == Put(P.idMapping, node.id, newId)
              inClipboard == \E i \in 1..Len(P.nodes) : P.nodes[i].id = node.parentId
              newParentId ==
                IF node.parentId # NULL /\ node.parentId \in DOMAIN idMapping
                THEN idMapping[node.parentId]
                ELSE IF node.parentId # NULL /\ ~inClipboard
                     THEN NULL
                     ELSE node.parentId
              geometry == [node.geometry EXCEPT !.x = @ + offsetX, !.y = @ + offsetY]
          IN out(createNode(S, nid + 1, [type |-> node.type, geometry |-> geometry],
                            newParentId),
                 [P EXCEPT !.todoNodes = Tail(@), !.idMapping = idMapping,
                           !.newNodeIds = Append(@, newId)],
                 nid + 2, eid, FALSE)
     ELSE IF P.todoEdges # <<>>
          THEN LET edge == Head(P.todoEdges)
                   rest == [P EXCEPT !.todoEdges = Tail(@)]
                   mapped == edge.sourceId \in DOMAIN P.idMapping
                             /\ edge.targetId \in DOMAIN P.idMapping
               IN IF mapped
                  THEN LET r == createEdge(S, eid, P.idMapping[edge.sourceId],
                                           P.idMapping[edge.targetId])
                       IN IF r.result = NULL
                          THEN pasteStep(S, rest, nid, eid, offsetX, offsetY)
                          ELSE out(r.store, rest, nid, eid + 1, FALSE)
                  ELSE pasteStep(S, rest, nid, eid, offsetX, offsetY)
          ELSE out(S, P, nid, eid, TRUE)

\* ======================= actions ===========================================
Op(name, id, changed) == [op |-> name, id |-> id, changed |-> changed]

\* debouncedSnapshot without clearTimeout: the new timer is added to the pending ones.
debouncedSnapshot_stacks(pending) == pending + 1

\* debouncedSnapshot: clearTimeout of the timer set last (one pending timer
\* fewer if it has not fired), then setTimeout.
debouncedSnapshot(pending) == (IF pending > 0 THEN pending - 1 ELSE 0) + 1

\* What every handler leaves behind: its name in lastOp and, when it wrote to
\* nodes or edges and the watcher of useAutoSnapshot is installed, a (re)started
\* debounce timer (debouncedSnapshot).
Trace(name, id, changed, wrote) ==
  /\ lastOp' = Op(name, id, changed)
  /\ cleared' = IF name = "handleClear"
                THEN [nid |-> nextNodeId, eid |-> nextEdgeId]
                ELSE cleared
  /\ debounceTimer' = IF autoSnapshot /\ wrote
                      THEN debouncedSnapshot(debounceTimer)
                      ELSE debounceTimer
  /\ UNCHANGED <<autoSnapshot, preserveAspectRatio>>

\* The same for a handler that is not one of useSelectable, useGroupable or
\* useClipboardable.
Watch(name, id, changed, wrote) ==
  /\ Trace(name, id, changed, wrote)
  /\ UNCHANGED <<selectVars, groupVars, clipVars>>

\* The same for a handler that is not one of useResizable.
Observe(name, id, changed, wrote) ==
  /\ Watch(name, id, changed, wrote)
  /\ UNCHANGED resizeVars

NoInstanceDragging == \A m \in NodeIds : ~isDragging[m]

\* The templates of the library store, dropped at (x, y).
LibraryItem(type, x, y) ==
  [type |-> type,
   geometry |-> IF type = "container"
                THEN Geometry(x, y, ContainerW, ContainerH)
                ELSE Geometry(x, y, ShapeW, ShapeH)]

\* graphStore.createNode(partialNode, parentId), run to its await.
CreateNode(partialNode, parentId) ==
  /\ nextNodeId <= MaxNodes
  /\ SetStore(createNode(Store, nextNodeId, partialNode, parentId))
  /\ nextNodeId' = nextNodeId + 1
  /\ Observe("createNode", nextNodeId, TRUE, TRUE)
  /\ UNCHANGED <<nextEdgeId, tasks, dragVars, connectionSource, histVars>>

\* GraphCanvas.handleDrop: a library item dropped on the canvas becomes a root.
HandleDrop(type, x, y) == CreateNode(LibraryItem(type, x, y), NULL)

\* graphStore.updateNode(id, { geometry }) from a handler that holds id.
UpdateNode(id, x) ==
  /\ SetStore(updateNode(Store, id,
       [geometry |-> IF id \in DOMAIN nodes
                     THEN [nodes[id].geometry EXCEPT !.x = x]
                     ELSE Geometry(x, 0, ShapeW, ShapeH)]))
  /\ Observe("updateNode", id, id \in DOMAIN nodes, id \in DOMAIN nodes)
  /\ UNCHANGED <<nextNodeId, nextEdgeId, tasks, dragVars, connectionSource, histVars>>

\* graphStore.reparentNode(nodeId, newParentId).
ReparentNode(nodeId, newParentId) ==
  /\ SetStore(reparentNode(Store, nodeId, newParentId))
  /\ Observe("reparentNode", nodeId, nodeId \in DOMAIN nodes, nodeId \in DOMAIN nodes)
  /\ UNCHANGED <<nextNodeId, nextEdgeId, tasks, dragVars, connectionSource, histVars>>

\* graphStore.deleteNode(id), not awaited by its callers: runs to its first await.
DeleteNode(id) ==
  /\ Len(tasks) < MaxTasks
  /\ LET r == deleteNodeStep(Store, deleteNodeTask(Store, id))
     IN /\ SetStore(r.store)
        /\ tasks' = IF taskDone(r.task) THEN tasks ELSE Append(tasks, r.task)
        /\ Observe("deleteNode", id, r.store # Store, r.store # Store)
  /\ UNCHANGED <<nextNodeId, nextEdgeId, dragVars, connectionSource, histVars>>

\* A suspended deleteNode resumes after its await.
ResumeDeleteNode(i) ==
  /\ i \in 1..Len(tasks)
  /\ tasks[i].op = "deleteNode"
  /\ LET r == deleteNodeStep(Store, tasks[i])
     IN /\ SetStore(r.store)
        /\ tasks' = IF taskDone(r.task)
                    THEN RemoveAt(tasks, i)
                    ELSE [tasks EXCEPT ![i] = r.task]
        /\ Observe("deleteNode:resume", tasks[i].id, r.store # Store, r.store # Store)
  /\ UNCHANGED <<nextNodeId, nextEdgeId, dragVars, connectionSource, histVars>>

\* graphStore.deleteEdge(id).
DeleteEdge(id) ==
  /\ SetStore(deleteEdge(Store, id))
  /\ Observe("deleteEdge", id, id \in DOMAIN edges, id \in DOMAIN edges)
  /\ UNCHANGED <<nextNodeId, nextEdgeId, tasks, dragVars, connectionSource, histVars>>

\* Toolbar.handleClear: graphStore.clearAll(), run to its first await.
ClearAll ==
  /\ Len(tasks) < MaxTasks
  /\ SetStore(clearAllStart(Store))
  /\ tasks' = Append(tasks, [op |-> "clearAll", id |-> NULL, edgesToDelete |-> <<>>,
                             toDelete |-> <<>>, prog |-> <<Ins("dbEdgesClear")>>,
                             allNodes |-> Empty, allEdges |-> Empty])
  /\ Observe("clearAll", NULL, TRUE, TRUE)
  /\ UNCHANGED <<nextNodeId, nextEdgeId, dragVars, connectionSource, histVars>>

\* Toolbar.handleClear, confirmed: graphStore.clearAll() run to its first
\* await, whatever else is suspended.
HandleClear ==
  /\ Len(tasks) < MaxRestorations
  /\ SetStore(clearAllStart(Store))
  /\ tasks' = Append(tasks, [op |-> "clearAll", id |-> NULL, edgesToDelete |-> <<>>,
                             toDelete |-> <<>>, prog |-> <<Ins("dbEdgesClear")>>,
                             allNodes |-> Empty, allEdges |-> Empty])
  /\ Observe("handleClear", NULL, TRUE, TRUE)
  /\ UNCHANGED <<nextNodeId, nextEdgeId, dragVars, connectionSource, histVars>>

\* clearAll resumes after await db.nodes.clear().
ResumeClearAll(i) ==
  /\ i \in 1..Len(tasks)
  /\ tasks[i].op = "clearAll"
  /\ SetStore(clearAllResume(Store))
  /\ tasks' = RemoveAt(tasks, i)
  /\ Observe("clearAll:resume", NULL, FALSE, FALSE)
  /\ UNCHANGED <<nextNodeId, nextEdgeId, dragVars, connectionSource, histVars>>

\* startConnection (shift + click on a node).
StartConnection(nodeId) ==
  /\ nodeId \in DOMAIN nodes
  /\ connectionSource' = nodeId
  /\ Observe("startConnection", nodeId, FALSE, FALSE)
  /\ UNCHANGED <<storeVars, dragVars, histVars>>

\* finishConnection (click on a node in connection mode), then cancelConnection.
FinishConnection(targetId) ==
  /\ connectionSource # NULL
  /\ targetId \in DOMAIN nodes
  /\ nextEdgeId <= MaxEdges
  /\ LET r == finishConnection(Store, nextEdgeId, connectionSource, targetId)
     IN /\ SetStore(r.store)
        /\ nextEdgeId' = IF r.result # NULL THEN nextEdgeId + 1 ELSE nextEdgeId
        /\ Observe("finishConnection", targetId, r.result # NULL, r.result # NULL)
  /\ connectionSource' = NULL
  /\ UNCHANGED <<nextNodeId, tasks, dragVars, histVars>>

\* useDraggable.handleDragStart on the instance of n (left button; one pointer,
\* so no other drag is under way).
HandleDragStart(n) ==
  /\ NoInstanceDragging
  /\ n \in DOMAIN nodes
  /\ isDragging' = [isDragging EXCEPT ![n] = TRUE]
  /\ initialPos' = [x |-> nodes[n].geometry.x, y |-> nodes[n].geometry.y]
  /\ Observe("handleDragStart", n, FALSE, FALSE)
  /\ UNCHANGED <<storeVars, potentialParent, connectionSource, histVars>>

\* useDraggable.handleDragMove, then onDragMove = updatePotentialParent.
\* dx, dy = (clientX - dragStart.x) / zoom.
HandleDragMove(n, dx, dy) ==
  /\ isDragging[n]
  /\ IF n \notin DOMAIN nodes
     THEN UNCHANGED <<nodes, edges, dbNodes, dbEdges, potentialParent>>
     ELSE LET x == initialPos.x + dx
              y == initialPos.y + dy
              S == updateNode(Store, n,
                     [geometry |-> [nodes[n].geometry EXCEPT !.x = x, !.y = y]])
          IN /\ x \in -MaxCoord..MaxCoord
             /\ y \in -MaxCoord..MaxCoord
             /\ SetStore(S)
             /\ potentialParent' =
                  [potentialParent EXCEPT
                     ![n] = updatePotentialParent(S.nodes, n, isDragging[n],
                                                  potentialParent[n])]
  /\ Observe("handleDragMove", n, n \in DOMAIN nodes, n \in DOMAIN nodes)
  /\ UNCHANGED <<nextNodeId, nextEdgeId, tasks, isDragging, initialPos,
                 connectionSource, histVars>>

\* useDraggable.handleDragEnd, then onDragEnd = commitDocking.
HandleDragEnd(n) ==
  /\ isDragging[n]
  /\ isDragging' = [isDragging EXCEPT ![n] = FALSE]
  /\ initialPos' = [x |-> 0, y |-> 0]
  /\ SetStore(commitDocking(Store, n, potentialParent[n]))
  /\ potentialParent' =
       [potentialParent EXCEPT
          ![n] = potentialParentAfterCommit(nodes, n, potentialParent[n])]
  /\ Observe("handleDragEnd", n, commitDocking(Store, n, potentialParent[n]) # Store,
             commitDocking(Store, n, potentialParent[n]) # Store)
  /\ UNCHANGED <<nextNodeId, nextEdgeId, tasks, connectionSource, histVars>>

\* useDockable.undockFromParent on the instance of n.
UndockFromParent(n) ==
  /\ n \in DOMAIN nodes
  /\ nodes[n].parentId # NULL
  /\ SetStore(undockFromParent(Store, n))
  /\ Observe("undockFromParent", n, TRUE, TRUE)
  /\ UNCHANGED <<nextNodeId, nextEdgeId, tasks, dragVars, connectionSource, histVars>>

\* snapshot(), called by the application through the handlers of useUndoable,
\* while the history holds fewer than MaxHistory entries (the eviction of old
\* entries is exercised by the debounce timer).
Snapshot ==
  /\ Len(history) < MaxHistory
  /\ LET H == snapshot(Hist, isUndoRedoAction, nodes, edges, MaxHistory)
     IN /\ history' = H.history
        /\ currentIndex' = H.currentIndex
  /\ Observe("snapshot", NULL, ~isUndoRedoAction, FALSE)
  /\ UNCHANGED <<storeVars, dragVars, connectionSource, isUndoRedoAction>>

\* The debounce timer of useAutoSnapshot fires: snapshot().
DebounceTimerFires ==
  /\ debounceTimer > 0
  /\ LET H == snapshot(Hist, isUndoRedoAction, nodes, edges, MaxHistory)
     IN /\ history' = H.history
        /\ currentIndex' = H.currentIndex
  /\ debounceTimer' = debounceTimer - 1
  /\ lastOp' = Op("debounceTimer", NULL, ~isUndoRedoAction)
  /\ UNCHANGED <<storeVars, dragVars, connectionSource, isUndoRedoAction, autoSnapshot,
                 resizeVars, preserveAspectRatio, selectVars, groupVars, clipVars, cleared>>

\* undo() (d = -1, can = canUndo) and redo() (d = 1, can = canRedo): return at
\* once when can is false; otherwise the cursor moves and, if (snap),
\* restoreSnapshot runs to its first await, inside clearAll.
MoveCursor(name, d, can) ==
  IF ~can
  THEN /\ Observe(name, NULL, FALSE, FALSE)
       /\ UNCHANGED <<storeVars, dragVars, connectionSource, histVars>>
  ELSE IF currentIndex + d + 1 \in 1..Len(history)
       THEN /\ Len(tasks) < MaxRestorations
            /\ currentIndex' = currentIndex + d
            /\ isUndoRedoAction' = TRUE
            /\ SetStore(clearAllStart(Store))
            /\ tasks' = Append(tasks, restoreTask(history[currentIndex + d + 1]))
            /\ Observe(name, NULL, TRUE, TRUE)
            /\ UNCHANGED <<nextNodeId, nextEdgeId, dragVars, connectionSource, history>>
       ELSE /\ currentIndex' = currentIndex + d
            /\ Observe(name, NULL, FALSE, FALSE)
            /\ UNCHANGED <<storeVars, dragVars, connectionSource, history,
                           isUndoRedoAction>>

Undo == MoveCursor("undo", -1, canUndo(Hist))

Redo == MoveCursor("redo", 1, canRedo(Hist))

\* A suspended restoreSnapshot resumes; after the assignments of loadFromDB it
\* returns through its finally block.
ResumeRestore(i) ==
  /\ i \in 1..Len(tasks)
  /\ tasks[i].op = "restoreSnapshot"
  /\ LET r == restoreStep(Store, tasks[i], nextNodeId, nextEdgeId)
         done == r.task.prog = <<>>
         wrote == r.store.nodes # nodes \/ r.store.edges # edges \/ done
     IN /\ r.nid <= MaxNodes + 1
        /\ r.eid <= MaxEdges + 1
        /\ SetStore(r.store)
        /\ nextNodeId' = r.nid
        /\ nextEdgeId' = r.eid
        /\ tasks' = IF done THEN RemoveAt(tasks, i) ELSE [tasks EXCEPT ![i] = r.task]
        /\ isUndoRedoAction' = IF done THEN FALSE ELSE isUndoRedoAction
        /\ Observe(IF done THEN "restoreSnapshot:done" ELSE "restoreSnapshot:resume",
                   NULL, wrote, wrote)
  /\ UNCHANGED <<dragVars, connectionSource, history, currentIndex>>

\* clearHistory(), called by the application through the handlers of useUndoable.
ClearHistory ==
  /\ LET H == clearHistory(Hist, isUndoRedoAction, nodes, edges, MaxHistory)
     IN /\ history' = H.history
        /\ currentIndex' = H.currentIndex
  /\ Observe("clearHistory", NULL, TRUE, FALSE)
  /\ UNCHANGED <<storeVars, dragVars, connectionSource, isUndoRedoAction>>

NoInstanceResizing == \A m \in NodeIds : ~isResizing[m]

\* useResizable.handleResizeStart on the instance of n (one pointer: no other
\* drag or resize is under way).
HandleResizeStart(n) ==
  /\ NoInstanceDragging /\ NoInstanceResizing
  /\ resizeCount < MaxResizes
  /\ resizeCount' = resizeCount + 1
  /\ n \in DOMAIN nodes
  /\ isResizing' = [isResizing EXCEPT ![n] = TRUE]
  /\ initialSize' = [w |-> nodes[n].geometry.w, h |-> nodes[n].geometry.h]
  /\ initialChildrenGeometry' = collectChildrenGeometry(nodes, n)
  /\ Watch("handleResizeStart", n, FALSE, FALSE)
  /\ UNCHANGED <<storeVars, dragVars, connectionSource, histVars>>

\* useResizable.handleResizeMove; sizes are kept within MaxSize.
HandleResizeMove(n, dx, dy) ==
  /\ isResizing[n]
  /\ LET S == handleResizeMove(Store, n, dx, dy, preserveAspectRatio, initialSize,
                               initialChildrenGeometry)
     IN /\ \A m \in DOMAIN S.nodes :
             S.nodes[m].geometry.w <= MaxSize /\ S.nodes[m].geometry.h <= MaxSize
        /\ SetStore(S)
        /\ Watch("handleResizeMove", n, n \in DOMAIN nodes, n \in DOMAIN nodes)
  /\ UNCHANGED <<nextNodeId, nextEdgeId, tasks, dragVars, connectionSource, histVars,
                 resizeVars>>

\* useResizable.handleResizeEnd.
HandleResizeEnd(n) ==
  /\ isResizing[n]
  /\ isResizing' = [isResizing EXCEPT ![n] = FALSE]
  /\ initialChildrenGeometry' = Empty
  /\ Watch("handleResizeEnd", n, FALSE, FALSE)
  /\ UNCHANGED <<storeVars, dragVars, connectionSource, histVars, initialSize,
                 resizeCount>>

\* What a handler of useSelectable or useGroupable leaves alone.
OutsideStore ==
  UNCHANGED <<storeVars, dragVars, connectionSource, histVars, resizeVars>>

\* useSelectable.select(addToSelection) on the instance of n.
Select(n, addToSelection) ==
  /\ n \in DOMAIN nodes
  /\ selectedNodeIds' = select(selectedNodeIds, n, addToSelection)
  /\ focusedNodeId' = n
  /\ Trace("select", n, selectedNodeIds' # selectedNodeIds, FALSE)
  /\ OutsideStore
  /\ UNCHANGED <<groupVars, clipVars>>

\* useSelectable.deselect() on the instance of n.
Deselect(n) ==
  /\ n \in DOMAIN nodes
  /\ selectedNodeIds' = deselect(selectedNodeIds, n)
  /\ focusedNodeId' = IF focusedNodeId = n THEN NULL ELSE focusedNodeId
  /\ Trace("deselect", n, selectedNodeIds' # selectedNodeIds, FALSE)
  /\ OutsideStore
  /\ UNCHANGED <<groupVars, clipVars>>

\* A handler of useGroupable ends with the groups G.
SetGroups(name, n, G) ==
  /\ groups' = G.groups
  /\ groupIdOf' = G.groupIdOf
  /\ Trace(name, n, G # Groups, G.groupIdOf # groupIdOf)
  /\ OutsideStore
  /\ UNCHANGED <<selectVars, clipVars>>

\* useGroupable.createGroup(), from the instance of any node.
CreateGroup ==
  /\ nextGroupId <= MaxGroups
  /\ LET r == createGroup(nodes, Groups, selectedNodeIds, nextGroupId)
     IN /\ SetGroups("createGroup", r.result, r.state)
        /\ nextGroupId' = IF r.result # NULL THEN nextGroupId + 1 ELSE nextGroupId

\* useGroupable.addToGroup(targetGroupId) on the instance of n.
AddToGroup(n, targetGroupId) ==
  /\ n \in DOMAIN nodes
  /\ SetGroups("addToGroup", n, addToGroup(nodes, Groups, n, targetGroupId))
  /\ UNCHANGED nextGroupId

\* useGroupable.removeFromGroup() on the instance of n.
RemoveFromGroup(n) ==
  /\ n \in DOMAIN nodes
  /\ SetGroups("removeFromGroup", n, removeFromGroup(nodes, Groups, n))
  /\ UNCHANGED nextGroupId

\* useGroupable.dissolveGroup() on the instance of n.
DissolveGroup(n) ==
  /\ n \in DOMAIN nodes
  /\ SetGroups("dissolveGroup", n, dissolveGroup(nodes, Groups, n))
  /\ UNCHANGED nextGroupId

\* useClipboardable.copy(), on the selection.
Copy ==
  /\ clipboard' = copy(Store, clipboard, selectedNodeIds)
  /\ Trace("copy", NULL, clipboard' # clipboard, FALSE)
  /\ OutsideStore
  /\ UNCHANGED <<selectVars, groupVars, pasting, pasted>>

\* paste() goes on from P to its next await or to its return.
PasteRuns(name, P) ==
  LET r == pasteStep(Store, P, nextNodeId, nextEdgeId, PASTE_OFFSET, PASTE_OFFSET)
  IN /\ r.nid <= MaxPasteId + 1
     /\ r.eid <= MaxEdges + 1
     /\ SetStore(r.store)
     /\ nextNodeId' = r.nid
     /\ nextEdgeId' = r.eid
     /\ pasting' = IF r.done THEN NoPaste ELSE r.paste
     /\ pasted' = IF r.done THEN r.paste.newNodeIds ELSE pasted
     /\ selectedNodeIds' = IF r.done THEN pasteSelection(r.paste) ELSE selectedNodeIds
     /\ Trace(IF r.done THEN "paste:done" ELSE name, NULL, r.store # Store \/ r.done,
              r.store # Store)
     /\ UNCHANGED <<tasks, dragVars, connectionSource, histVars, resizeVars, focusedNodeId,
                    groupVars, clipboard>>

\* useClipboardable.paste() with the default offsets, no other paste in flight.
Paste ==
  /\ ~pasting.active
  /\ IF clipboard.set
     THEN PasteRuns("paste", pasteBegin(clipboard))
     ELSE /\ pasted' = <<>>
          /\ Trace("paste", NULL, FALSE, FALSE)
          /\ OutsideStore
          /\ UNCHANGED <<selectVars, groupVars, clipboard, pasting>>

\* The suspended paste() resumes after its await.
ResumePaste ==
  /\ pasting.active
  /\ PasteRuns("paste:resume", pasting)

\* ======================= specifications ====================================
InitStore(watching) ==
  /\ nodes = Empty
  /\ edges = Empty
  /\ dbNodes = Empty
  /\ dbEdges = Empty
  /\ nextNodeId = 1
  /\ nextEdgeId = 1
  /\ tasks = <<>>
  /\ isDragging = [n \in NodeIds |-> FALSE]
  /\ initialPos = [x |-> 0, y |-> 0]
  /\ potentialParent = [n \in NodeIds |-> NULL]
  /\ connectionSource = NULL
  /\ history = <<>>
  /\ currentIndex = -1
  /\ isUndoRedoAction = FALSE
  /\ debounceTimer = 0
  /\ autoSnapshot = watching
  /\ isResizing = [n \in NodeIds |-> FALSE]
  /\ initialSize = [w |-> 0, h |-> 0]
  /\ initialChildrenGeometry = Empty
  /\ resizeCount = 0
  /\ selectedNodeIds = <<>>
  /\ focusedNodeId = NULL
  /\ groups = Empty
  /\ groupIdOf = Empty
  /\ nextGroupId = 1
  /\ clipboard = NoClipboard
  /\ pasting = NoPaste
  /\ pasted = <<>>
  /\ cleared = [nid |-> 1, eid |-> 1]
  /\ lastOp = Op("init", NULL, FALSE)

\* NodeRenderer calls useResizable without preserveAspectRatio.
InitWith(watching) == InitStore(watching) /\ preserveAspectRatio = FALSE

\* The application as wired in the repository: useAutoSnapshot is not called.
Init == InitWith(FALSE)

\* Creation, drag and dock, undock and delete.
NextDock ==
  \/ \E type \in NodeTypes, x \in DropXs, y \in DropYs : HandleDrop(type, x, y)
  \/ \E id \in NodeIds : DeleteNode(id)
  \/ \E i \in 1..MaxTasks : ResumeDeleteNode(i)
  \/ \E n \in NodeIds : HandleDragStart(n)
  \/ \E n \in NodeIds, dx \in DragDxs, dy \in DragDys : HandleDragMove(n, dx, dy)
  \/ \E n \in NodeIds : HandleDragEnd(n)
  \/ \E n \in NodeIds : UndockFromParent(n)

SpecDock == Init /\ [][NextDock]_vars

\* Drags that can carry a docked node out of its container: a shape moved up
\* by MaxCoord has its centre above the container's top edge.
DragOutDys == {0, -MaxCoord}

NextDragOut ==
  \/ \E type \in NodeTypes, x \in DropXs, y \in DropYs : HandleDrop(type, x, y)
  \/ \E n \in NodeIds : HandleDragStart(n)
  \/ \E n \in NodeIds, dx \in DragDxs, dy \in DragOutDys : HandleDragMove(n, dx, dy)
  \/ \E n \in NodeIds : HandleDragEnd(n)

SpecDragOut == Init /\ [][NextDragOut]_vars

\* Nodes created at the relative positions of the chain A(10,10), B(5,5),
\* N(1,1), under any node of the store or at root level.
ChainCoords == {1, 5, 10}

NextChain ==
  \E type \in NodeTypes, x \in ChainCoords, y \in ChainCoords, p \in 0..MaxNodes :
    p < nextNodeId /\ CreateNode(LibraryItem(type, x, y), p)

SpecChain == Init /\ [][NextChain]_vars

\* The same, with nodes also created under an id that no node ever has
\* (createNode does not look the parentId up).
AbsentId == MaxNodes + 1

NextDangling ==
  \E type \in NodeTypes, x \in ChainCoords, y \in ChainCoords, p \in 0..AbsentId :
    (p < nextNodeId \/ p = AbsentId) /\ CreateNode(LibraryItem(type, x, y), p)

SpecDangling == Init /\ [][NextDangling]_vars

\* The graph store's actions and the connection handlers; ids may be ids of
\* nodes and edges that are gone, and a created node may name any parent id
\* drawn so far (restoreSnapshot and paste pass ids that are not in the store).
\* reparentNode has no caller in the repository; it is driven with null.
NextStore ==
  \/ \E p \in 0..MaxNodes :
       p < nextNodeId /\ CreateNode(LibraryItem("shape", 0, 0), p)
  \/ \E id \in NodeIds : UpdateNode(id, MaxCoord)
  \/ \E id \in NodeIds : ReparentNode(id, NULL)
  \/ \E id \in NodeIds : DeleteNode(id)
  \/ \E i \in 1..MaxTasks : ResumeDeleteNode(i)
  \/ \E id \in EdgeIds : DeleteEdge(id)
  \/ ClearAll
  \/ \E i \in 1..MaxTasks : ResumeClearAll(i)
  \/ \E n \in NodeIds : StartConnection(n)
  \/ \E n \in NodeIds : FinishConnection(n)

SpecStore == Init /\ [][NextStore]_vars

\* Resize gestures on nodes created at root or inside a node, in either mode
\* of useResizable.
InitResize == InitStore(FALSE) /\ preserveAspectRatio \in BOOLEAN

NextResize ==
  \/ \E type \in NodeTypes, p \in 0..MaxNodes :
       p < nextNodeId /\ CreateNode(LibraryItem(type, 2 * ChildMinSize, 0), p)
  \/ \E n \in NodeIds : HandleResizeStart(n)
  \/ \E n \in NodeIds : \E d \in ResizeDeltas : HandleResizeMove(n, d[1], d[2])
  \/ \E n \in NodeIds : HandleResizeEnd(n)

SpecResize == InitResize /\ [][NextResize]_vars

\* An application that calls useAutoSnapshot() at start-up: creation and
\* connection on the canvas, the debounce timer, undo and redo.
NextUndo ==
  \/ HandleDrop("shape", 0, 0)
  \/ \E n \in NodeIds : StartConnection(n)
  \/ \E n \in NodeIds : FinishConnection(n)
  \/ DebounceTimerFires
  \/ Undo
  \/ Redo
  \/ \E i \in 1..MaxRestorations : ResumeRestore(i)

InitUndo == InitWith(TRUE)

SpecUndo == InitUndo /\ [][NextUndo]_vars

\* The application with the toolbar's clear button: creation, connection,
\* automatic snapshots, undo and clear.
NextClear ==
  \/ HandleDrop("shape", 0, 0)
  \/ \E n \in NodeIds : StartConnection(n)
  \/ \E n \in NodeIds : FinishConnection(n)
  \/ DebounceTimerFires
  \/ Undo
  \/ \E i \in 1..MaxRestorations : ResumeRestore(i)
  \/ HandleClear
  \/ \E i \in 1..MaxRestorations : ResumeClearAll(i)

SpecClear == InitUndo /\ [][NextClear]_vars

\* The application with nested nodes: creation under any node of the store or
\* at root level, automatic snapshots, undo and redo.
NextNested ==
  \/ \E type \in NodeTypes, p \in 0..MaxNodes :
       p < nextNodeId /\ CreateNode(LibraryItem(type, 0, 0), p)
  \/ DebounceTimerFires
  \/ Undo
  \/ Redo
  \/ \E i \in 1..MaxRestorations : ResumeRestore(i)

SpecNested == InitUndo /\ [][NextNested]_vars

\* An application that records its snapshots itself (useAutoSnapshot is not
\* called): creation and connection on the canvas, snapshot, undo and redo.
NextSnapshot ==
  \/ HandleDrop("shape", 0, 0)
  \/ \E n \in NodeIds : StartConnection(n)
  \/ \E n \in NodeIds : FinishConnection(n)
  \/ Snapshot
  \/ Undo
  \/ Redo
  \/ \E i \in 1..MaxRestorations : ResumeRestore(i)

SpecSnapshot == Init /\ [][NextSnapshot]_vars

\* The history under every handler of useUndoable: snapshots taken by the
\* application and by the debounce timer (which evict old entries), undo, redo
\* and clearHistory, on a store that grows.
NextHistory ==
  \/ HandleDrop("shape", 0, 0)
  \/ Snapshot
  \/ DebounceTimerFires
  \/ Undo
  \/ Redo
  \/ \E i \in 1..MaxRestorations : ResumeRestore(i)
  \/ ClearHistory

SpecHistory == InitUndo /\ [][NextHistory]_vars

\* Nodes dropped on the canvas, selected and grouped.
NextGroup ==
  \/ HandleDrop("shape", 0, 0)
  \/ \E n \in NodeIds, addToSelection \in BOOLEAN : Select(n, addToSelection)
  \/ \E n \in NodeIds : Deselect(n)
  \/ CreateGroup
  \/ \E n \in NodeIds, g \in GroupIds : AddToGroup(n, g)
  \/ \E n \in NodeIds : RemoveFromGroup(n)
  \/ \E n \in NodeIds : DissolveGroup(n)

SpecGroup == Init /\ [][NextGroup]_vars

\* Nodes created at root level or inside others, connected, selected, copied
\* and pasted.
NextPaste ==
  \/ \E p \in 0..MaxCopied :
       p < nextNodeId /\ nextNodeId <= MaxCopied /\ CreateNode(LibraryItem("shape", 0, 0), p)
  \/ \E n \in NodeIds : StartConnection(n)
  \/ \E n \in NodeIds : FinishConnection(n)
  \/ \E n \in NodeIds, addToSelection \in BOOLEAN : Select(n, addToSelection)
  \/ Copy
  \/ Paste
  \/ ResumePaste

SpecPaste == Init /\ [][NextPaste]_vars

\* ======================= properties ========================================
\* The ids reached from n by following parentId (n's ancestors), computed as a
\* set, at most k hops.
RECURSIVE AncestorsUpTo(_, _, _)
AncestorsUpTo(ns, n, k) ==
  IF k = 0 \/ n \notin DOMAIN ns
  THEN {}
  ELSE IF ns[n].parentId = NULL
       THEN {}
       ELSE {ns[n].parentId} \cup AncestorsUpTo(ns, ns[n].parentId, k - 1)

Ancestors(ns, n) == AncestorsUpTo(ns, n, Cardinality(DOMAIN ns) + 1)

Center2(ns, n) ==
  LET absPos == getNodeAbsolutePosition(ns, n)
  IN [x2 |-> 2 * absPos.x + ns[n].geometry.w, y2 |-> 2 * absPos.y + ns[n].geometry.h]

\* The points probed: the centre and the two x-corners of every node, in half units.
ProbePoints(ns) ==
  UNION {LET c == Center2(ns, m)
         IN {c, [c EXCEPT !.x2 = c.x2 - ns[m].geometry.w],
                [c EXCEPT !.x2 = c.x2 + ns[m].geometry.w]} : m \in DOMAIN ns}

\* C1: findContainerAtPoint(x, y, N) never returns N nor a node that has N among
\* its ancestors, whatever the point and the node N of the store.
Thm_C1 ==
  \A N \in DOMAIN nodes : \A pt \in ProbePoints(nodes) :
    LET r == findContainerAtPoint(nodes, pt.x2, pt.y2, N)
    IN r # N /\ (r # NULL => N \notin Ancestors(nodes, r))

\* C1 witness: during a drag of N a container two levels below N holds N's
\* centre, and the potential parent just computed is not in N's subtree.
Wit_C1 ==
  \E N \in DOMAIN nodes : \E D \in DOMAIN nodes :
    /\ lastOp = Op("handleDragMove", N, TRUE)
    /\ nodes[D].type = "container"
    /\ N \in Ancestors(nodes, D)
    /\ nodes[D].parentId # N
    /\ isPointInsideNode(nodes, D, Center2(nodes, N).x2, Center2(nodes, N).y2)
    /\ potentialParent[N] # D
    /\ potentialParent[N] = findContainerAtPoint(nodes, Center2(nodes, N).x2,
                                                 Center2(nodes, N).y2, N)

\* C2: the parentId relation is acyclic: no node is its own ancestor.
Thm_C2 == \A n \in DOMAIN nodes : n \notin Ancestors(nodes, n)

\* C2 witness: a drag has just docked a container that has a container child
\* whose box holds the dragged node's centre.
Wit_C2 ==
  \E N \in DOMAIN nodes : \E D \in DOMAIN nodes :
    /\ lastOp = Op("handleDragEnd", N, TRUE)
    /\ nodes[N].parentId # NULL
    /\ nodes[D].type = "container"
    /\ nodes[D].parentId = N
    /\ isPointInsideNode(nodes, D, Center2(nodes, N).x2, Center2(nodes, N).y2)

\* C3: when the commitDocking of a drag end changes the parent of node n, the
\* absolute position of n and its w and h are the same before and after.
Thm_C3 ==
  [][\A n \in NodeIds :
       ( /\ isDragging[n] /\ ~isDragging'[n]
         /\ n \in DOMAIN nodes /\ n \in DOMAIN nodes'
         /\ nodes'[n].parentId # nodes[n].parentId )
       => /\ getNodeAbsolutePosition(nodes', n) = getNodeAbsolutePosition(nodes, n)
          /\ nodes'[n].geometry.w = nodes[n].geometry.w
          /\ nodes'[n].geometry.h = nodes[n].geometry.h]_vars

\* C3 witness: a drag end has just reparented a node into a container whose
\* absolute position is not the origin, and from a frame that was not the new one.
Wit_C3 ==
  \E n \in DOMAIN nodes :
    /\ lastOp = Op("handleDragEnd", n, TRUE)
    /\ nodes[n].parentId \in DOMAIN nodes
    /\ getNodeAbsolutePosition(nodes, nodes[n].parentId).x # 0
    /\ nodes[n].geometry.x # 0

\* The store after commitDocking(N) with candidate parent B, then with A.
DockThereAndBack(S, N, A, B) == commitDocking(commitDocking(S, N, B), N, A)

RoundTripCase(ns, N, A, B) ==
  /\ N \in DOMAIN ns /\ A \in DOMAIN ns /\ B \in DOMAIN ns
  /\ ns[N].parentId = A
  /\ ns[A].type = "container" /\ ns[B].type = "container"
  /\ A # B /\ A # N /\ B # N
  /\ N \notin Ancestors(ns, A) /\ N \notin Ancestors(ns, B)

\* C4: for N under container A and another container B (neither of them N or
\* a descendant of N), docking N into B and back into A restores N's parentId,
\* its relative (x, y) and its absolute position.
Thm_C4 ==
  \A N \in NodeIds, A \in NodeIds, B \in NodeIds :
    RoundTripCase(nodes, N, A, B)
    => LET T == DockThereAndBack(Store, N, A, B)
       IN /\ commitDocking(Store, N, B).nodes[N].parentId = B
          /\ T.nodes[N] = nodes[N]
          /\ getNodeAbsolutePosition(T.nodes, N) = getNodeAbsolutePosition(nodes, N)

\* C4 witness: N has just been docked into A, another container B qualifies, and
\* the frames of A and B differ and are nested with an offset.
Wit_C4 ==
  \E N \in NodeIds, A \in NodeIds, B \in NodeIds :
    /\ RoundTripCase(nodes, N, A, B)
    /\ lastOp = Op("handleDragEnd", N, TRUE)
    /\ nodes[B].parentId # NULL
    /\ getNodeAbsolutePosition(nodes, B) # getNodeAbsolutePosition(nodes, A)
    /\ getNodeAbsolutePosition(nodes, B).x # nodes[B].geometry.x

\* The store once the restoration that undo (d = -1) or redo (d = 1) starts in
\* this state has run from start to end.
AfterRestore(d) ==
  restoreRun(clearAllStart(Store), restoreTask(history[currentIndex + d + 1]),
             nextNodeId, nextEdgeId)

EdgeEnds(es) == {<<es[e].sourceId, es[e].targetId>> : e \in DOMAIN es}

\* C5: when no restoration is in flight and undo (resp. redo) is possible, the
\* restoration it starts ends with the nodes of the snapshot at the new cursor
\* position (same ids, parentId, type, geometry) and an edge between the same
\* endpoints for every edge of that snapshot.
Cex_C5 ==
  \A d \in {-1, 1} :
    ( /\ tasks = <<>>
      /\ IF d = -1 THEN canUndo(Hist) ELSE canRedo(Hist) )
    => /\ AfterRestore(d).nodes = history[currentIndex + d + 1].nodes
       /\ EdgeEnds(AfterRestore(d).edges) = EdgeEnds(history[currentIndex + d + 1].edges)

\* C6: when a restoration has completed and the debounce timer it scheduled
\* fires, the history and the cursor stay as they were after the cursor moved.
Cex_C6 ==
  [][( /\ lastOp.op = "restoreSnapshot:done"
       /\ tasks = <<>>
       /\ lastOp'.op = "debounceTimer" )
     => (history' = history /\ currentIndex' = currentIndex)]_vars

\* id and the nodes that have id among their ancestors.
Subtree(ns, id) == {id} \cup {m \in DOMAIN ns : id \in Ancestors(ns, m)}

\* The store once deleteNode(id) has run from start to end.
AfterDeleteNode(id) == deleteNodeRun(Store, deleteNodeTask(Store, id))

Touches(e, D) == e.sourceId \in D \/ e.targetId \in D

\* C7: after deleteNode(id) has completed, id and all its transitive
\* descendants are absent, every edge with a deleted node as source or target
\* is absent, and every other node and edge is as before.
Thm_C7 ==
  \A id \in NodeIds :
    LET T == AfterDeleteNode(id)
        D == Subtree(nodes, id)
    IN /\ DOMAIN T.nodes = DOMAIN nodes \ D
       /\ \A m \in DOMAIN T.nodes : T.nodes[m] = nodes[m]
       /\ DOMAIN T.edges = {e \in DOMAIN edges : ~Touches(edges[e], D)}
       /\ \A e \in DOMAIN T.edges : T.edges[e] = edges[e]

\* C7 witness: a node with a child, an edge from an unrelated node to that
\* child; deleteNode of the parent leaves the unrelated node alone in the store.
Wit_C7 ==
  \E id \in DOMAIN nodes, c \in DOMAIN nodes, u \in DOMAIN nodes : \E e \in DOMAIN edges :
    /\ nodes[c].parentId = id
    /\ u \notin Subtree(nodes, id)
    /\ edges[e].sourceId = u /\ edges[e].targetId = c
    /\ DOMAIN AfterDeleteNode(id).nodes = {u}
    /\ AfterDeleteNode(id).edges = Empty

Endpoints(e) == {e.sourceId, e.targetId}

\* C8: there is at most one edge per unordered pair of nodes, and createEdge(A, B)
\* with an edge A-B or B-A in the store returns null and changes nothing.
Cex_C8 ==
  /\ \A e1 \in DOMAIN edges, e2 \in DOMAIN edges :
       e1 # e2 => Endpoints(edges[e1]) # Endpoints(edges[e2])
  /\ \A A \in DOMAIN nodes, B \in DOMAIN nodes :
       (\E e \in DOMAIN edges : Endpoints(edges[e]) = {A, B})
       => createEdge(Store, nextEdgeId, A, B) = [store |-> Store, result |-> NULL]

\* C9: every edge of the store has sourceId different from targetId.
Thm_C9 == \A e \in DOMAIN edges : edges[e].sourceId # edges[e].targetId

\* C9 witness: a connection started on n is about to be finished on n itself;
\* the store's createEdge would take it, finishConnection does not.
Wit_C9 ==
  \E n \in DOMAIN nodes :
    /\ connectionSource = n
    /\ edges # Empty
    /\ nextEdgeId <= MaxEdges
    /\ createEdge(Store, nextEdgeId, n, n).result # NULL
    /\ finishConnection(Store, nextEdgeId, connectionSource, n).result = NULL

\* C10: updateNode, deleteNode, deleteEdge and reparentNode called with an id
\* that is not in the store leave the node and edge collections unchanged.
Cex_C10 ==
  [][( \/ /\ lastOp'.op \in {"updateNode", "deleteNode", "reparentNode"}
          /\ lastOp'.id \notin DOMAIN nodes
       \/ /\ lastOp'.op = "deleteEdge"
          /\ lastOp'.id \notin DOMAIN edges )
     => (nodes' = nodes /\ edges' = edges)]_vars

\* C11: undo() when canUndo is false and redo() when canRedo is false leave the
\* store, the history list and currentIndex unchanged.
Thm_C11 ==
  [][( \/ (lastOp'.op = "undo" /\ ~(currentIndex > 0))
       \/ (lastOp'.op = "redo" /\ ~(currentIndex < Len(history) - 1)) )
     => UNCHANGED <<nodes, edges, dbNodes, dbEdges, history, currentIndex>>]_vars

\* C11 witness: undo() has just returned at once with the cursor on the first
\* entry of a history of two, and the store is not empty.
Wit_C11 ==
  /\ lastOp = Op("undo", NULL, FALSE)
  /\ currentIndex = 0
  /\ Len(history) = 2
  /\ nodes # Empty

\* A step in which snapshot() ran with the guard isUndoRedoAction down.
SnapshotRecorded ==
  /\ lastOp'.op \in {"snapshot", "debounceTimer"}
  /\ ~isUndoRedoAction

\* The last k entries of q (all of q when it has fewer).
LastEntries(q, k) == IF Len(q) > k THEN SubSeq(q, Len(q) - k + 1, Len(q)) ELSE q

\* C12: a recorded snapshot discards every entry after the cursor, appends the
\* snapshot of the store and places the cursor on it, so that canRedo is false
\* right after it.
Thm_C12 ==
  [][SnapshotRecorded
     => /\ history' = LastEntries(Append(SubSeq(history, 1, currentIndex + 1),
                                         [nodes |-> nodes, edges |-> edges]),
                                  MaxHistory)
        /\ currentIndex' = Len(history') - 1
        /\ ~(currentIndex' < Len(history') - 1)]_vars

\* C12 witness: the cursor is before the end of the history after an undo, the
\* entry after it differs from the store, and the snapshot about to be taken
\* leaves the store's snapshot last with the cursor on it.
Wit_C12 ==
  /\ debounceTimer > 0 /\ ~isUndoRedoAction /\ tasks = <<>>
  /\ currentIndex = 0 /\ Len(history) = 2
  /\ history[2] # [nodes |-> nodes, edges |-> edges]
  /\ LET H == snapshot(Hist, isUndoRedoAction, nodes, edges, MaxHistory)
     IN /\ H.history = <<history[1], [nodes |-> nodes, edges |-> edges]>>
        /\ H.currentIndex = 1

\* C13: the history never holds more than maxHistory snapshots; a recorded
\* snapshot that would exceed the cap drops the oldest entries, keeps the newest
\* and leaves the cursor on the newest entry.
Thm_C13 ==
  /\ Len(history) <= MaxHistory
  /\ [][/\ Len(history') <= MaxHistory
        /\ (SnapshotRecorded /\ currentIndex + 2 > MaxHistory)
           => /\ Len(history') = MaxHistory
              /\ history'[MaxHistory] = [nodes |-> nodes, edges |-> edges]
              /\ \A i \in 1..(MaxHistory - 1) :
                   history'[i] = history[currentIndex + 1 - (MaxHistory - 1) + i]
              /\ currentIndex' = MaxHistory - 1]_vars

\* C13 witness: the history is full with the cursor at its end, its entries
\* differ, and the snapshot about to be taken drops the oldest of them.
Wit_C13 ==
  /\ debounceTimer > 0 /\ ~isUndoRedoAction
  /\ Len(history) = MaxHistory /\ currentIndex = MaxHistory - 1
  /\ history[1] # history[2]
  /\ history[2] # [nodes |-> nodes, edges |-> edges]
  /\ LET H == snapshot(Hist, isUndoRedoAction, nodes, edges, MaxHistory)
     IN /\ H.history = <<history[2], [nodes |-> nodes, edges |-> edges]>>
        /\ H.currentIndex = MaxHistory - 1

\* A restoration started by undo or redo has not returned yet.
RestorationInFlight == \E i \in 1..Len(tasks) : tasks[i].op = "restoreSnapshot"

\* C14: while a restoration is in flight, a mutation issued by another handler
\* (a drop that creates a node, a connection that creates an edge) is not
\* applied to the store.
Cex_C14 ==
  [][( /\ RestorationInFlight
       /\ lastOp'.op \in {"createNode", "updateNode", "deleteNode", "finishConnection",
                          "deleteEdge"} )
     => (nodes' = nodes /\ edges' = edges)]_vars

\* C15: at most one debounce timer is pending at any time; when it fires none
\* is left, and the snapshot it records is that of the store as the last
\* mutation left it: a burst of mutations gives one snapshot, taken after the last.
Thm_C15 ==
  /\ debounceTimer <= 1
  /\ [][/\ debounceTimer' <= 1
        /\ lastOp'.op = "debounceTimer"
           => /\ debounceTimer' = 0
              /\ ~isUndoRedoAction
                 => history'[Len(history')] = [nodes |-> nodes, edges |-> edges]]_vars

\* C15 witness: the timer has just fired after a burst of two creations that
\* followed the first snapshot; the history has one more entry, which holds both
\* nodes, and no timer is pending.
Wit_C15 ==
  /\ lastOp = Op("debounceTimer", NULL, TRUE)
  /\ debounceTimer = 0
  /\ Len(history) = 2
  /\ DOMAIN history[1].nodes = {1}
  /\ DOMAIN history[2].nodes = {1, 2, 3}
  /\ history[2].nodes = nodes

\* The geometry resize-move gives a descendant captured at resize-start.
ScaledGeometry(initial, scaleX, scaleY) ==
  Geometry(Times(initial.x, scaleX), Times(initial.y, scaleY),
           Max(ChildMinSize, Times(initial.w, scaleX)),
           Max(ChildMinSize, Times(initial.h, scaleY)))

\* The nodes after a resize-move of the gesture under way on n.
AfterResizeMove(S, n, d) ==
  handleResizeMove(S, n, d[1], d[2], preserveAspectRatio, initialSize,
                   initialChildrenGeometry)

\* C16: after every resize-move each descendant captured at resize-start has
\* x, y, w, h scaled from its initial geometry by newW / initialW and
\* newH / initialH (w and h not below 20), and a move after another gives what
\* the last move alone gives.
Thm_C16 ==
  /\ [](\A n \in DOMAIN nodes : \A d1 \in ResizeDeltas, d2 \in ResizeDeltas :
          isResizing[n]
          => AfterResizeMove(AfterResizeMove(Store, n, d1), n, d2).nodes
               = AfterResizeMove(Store, n, d2).nodes)
  /\ [][\A n \in DOMAIN nodes :
          (lastOp'.op = "handleResizeMove" /\ lastOp'.id = n)
          => \A c \in DOMAIN initialChildrenGeometry :
               nodes'[c].geometry =
                 ScaledGeometry(initialChildrenGeometry[c],
                                Scale(nodes'[n].geometry.w, initialSize.w),
                                Scale(nodes'[n].geometry.h, initialSize.h))]_vars

\* C16 witness: a resize-move has doubled the width of n; its child, at x > 0
\* at resize-start, is at twice that x, and its grandchild is twice as wide.
Wit_C16 ==
  \E n \in DOMAIN nodes, c \in DOMAIN nodes, g \in DOMAIN nodes :
    /\ lastOp = Op("handleResizeMove", n, TRUE)
    /\ isResizing[n]
    /\ nodes[n].geometry.w = 2 * initialSize.w
    /\ nodes[c].parentId = n /\ nodes[g].parentId = c
    /\ {c, g} \subseteq DOMAIN initialChildrenGeometry
    /\ initialChildrenGeometry[c].x > 0
    /\ nodes[c].geometry.x = 2 * initialChildrenGeometry[c].x
    /\ nodes[g].geometry.w = 2 * initialChildrenGeometry[g].w

\* C17: after every resize-move, in either mode, the resized node has w and h
\* of at least minSize and every rewritten descendant w and h of at least 20.
Cex_C17 ==
  [][\A n \in DOMAIN nodes :
       (lastOp'.op = "handleResizeMove" /\ lastOp'.id = n)
       => /\ nodes'[n].geometry.w >= MinSize
          /\ nodes'[n].geometry.h >= MinSize
          /\ \A c \in DOMAIN initialChildrenGeometry :
               /\ nodes'[c].geometry.w >= ChildMinSize
               /\ nodes'[c].geometry.h >= ChildMinSize]_vars

\* The sum of the relative coordinate (x or y) of the nodes of a set that are
\* in the store.
RECURSIVE SumOver(_, _, _)
SumOver(ns, set, axis) ==
  IF set = {}
  THEN 0
  ELSE LET m == Min(set)
       IN (IF m \in DOMAIN ns THEN ns[m].geometry[axis] ELSE 0)
            + SumOver(ns, set \ {m}, axis)

\* The containers that qualify for the point (half units) when N is excluded:
\* not N, N not among their ancestors, and the point within the box whose
\* corner is the sum of the relative positions along the ancestor chain.
Qualifying(ns, x2, y2, N) ==
  {c \in DOMAIN ns :
     /\ ns[c].type = "container"
     /\ c # N
     /\ N \notin Ancestors(ns, c)
     /\ LET ax == ns[c].geometry.x + SumOver(ns, Ancestors(ns, c), "x")
            ay == ns[c].geometry.y + SumOver(ns, Ancestors(ns, c), "y")
        IN /\ 2 * ax <= x2 /\ x2 <= 2 * (ax + ns[c].geometry.w)
           /\ 2 * ay <= y2 /\ y2 <= 2 * (ay + ns[c].geometry.h)}

\* The number of parentId links above c (a link to a node no longer in the
\* store counts as one level).
NestingDepth(ns, c) == Cardinality(Ancestors(ns, c))

\* C18: for every point and every excluded node (or none), findContainerAtPoint
\* returns a qualifying container of maximal nesting depth, and returns null
\* exactly when no container qualifies.
Thm_C18 ==
  \A N \in DOMAIN nodes \cup {NULL} : \A pt \in ProbePoints(nodes) :
    LET r == findContainerAtPoint(nodes, pt.x2, pt.y2, N)
        Q == Qualifying(nodes, pt.x2, pt.y2, N)
    IN /\ (r = NULL) <=> (Q = {})
       /\ r # NULL => /\ r \in Q
                      /\ \A o \in Q : NestingDepth(nodes, o) <= NestingDepth(nodes, r)

\* C18 witness: a drag move of N has just computed its potential parent at N's
\* centre, where two containers of different depths qualify and a third
\* probe point has no qualifying container.
Wit_C18 ==
  \E N \in DOMAIN nodes : \E A \in DOMAIN nodes, B \in DOMAIN nodes :
    LET c == Center2(nodes, N)
        Q == Qualifying(nodes, c.x2, c.y2, N)
    IN /\ lastOp.op = "handleDragMove" /\ lastOp.id = N
       /\ A \in Q /\ B \in Q /\ A < B
       /\ NestingDepth(nodes, A) < NestingDepth(nodes, B)
       /\ potentialParent[N] = B
       /\ \E pt \in ProbePoints(nodes) : Qualifying(nodes, pt.x2, pt.y2, N) = {}

\* C19: when the drag of a node that has a parent ends where
\* findContainerAtPoint finds no container for the node's centre, the node is
\* at root level afterwards (parentId null) and its absolute position is the
\* position it was dropped at.
Cex_C19 ==
  [][\A n \in DOMAIN nodes :
       ( /\ lastOp'.op = "handleDragEnd" /\ lastOp'.id = n
         /\ nodes[n].parentId # NULL
         /\ findContainerAtPoint(nodes, Center2(nodes, n).x2,
                                 Center2(nodes, n).y2, n) = NULL )
       => /\ n \in DOMAIN nodes'
          /\ nodes'[n].parentId = NULL
          /\ getNodeAbsolutePosition(nodes', n) = getNodeAbsolutePosition(nodes, n)]_vars

\* The chain root -> A(10,10) -> B(5,5) -> N(1,1).
Chain(ns, A, B, N) ==
  /\ A \in DOMAIN ns /\ B \in DOMAIN ns /\ N \in DOMAIN ns
  /\ ns[A].parentId = NULL /\ ns[B].parentId = A /\ ns[N].parentId = B
  /\ ns[A].geometry.x = 10 /\ ns[A].geometry.y = 10
  /\ ns[B].geometry.x = 5 /\ ns[B].geometry.y = 5
  /\ ns[N].geometry.x = 1 /\ ns[N].geometry.y = 1

\* C20: getNodeAbsolutePosition(n) is the component-wise sum of the relative
\* (x, y) of n and of all its ancestors, and it is (16,16) for N in the chain
\* root -> A(10,10) -> B(5,5) -> N(1,1).
Thm_C20 ==
  /\ \A n \in DOMAIN nodes :
       getNodeAbsolutePosition(nodes, n) =
         [x |-> nodes[n].geometry.x + SumOver(nodes, Ancestors(nodes, n), "x"),
          y |-> nodes[n].geometry.y + SumOver(nodes, Ancestors(nodes, n), "y")]
  /\ \A A \in NodeIds, B \in NodeIds, N \in NodeIds :
       Chain(nodes, A, B, N)
       => getNodeAbsolutePosition(nodes, N) = [x |-> 16, y |-> 16]

\* C20 witness: the store holds the chain root -> A(10,10) -> B(5,5) -> N(1,1),
\* N just created.
Wit_C20 ==
  \E A \in NodeIds, B \in NodeIds, N \in NodeIds :
    Chain(nodes, A, B, N) /\ lastOp = Op("createNode", N, TRUE)

\* What undockFromParent does to node n of store S, against the claim: with a
\* parent, parentId null, (x, y) the previous absolute position, absolute
\* position, w and h as before; at root level nothing.
UndockEffect(S, n) ==
  LET T == undockFromParent(S, n)
      before == getNodeAbsolutePosition(S.nodes, n)
  IN IF S.nodes[n].parentId # NULL
     THEN /\ T.nodes[n].parentId = NULL
          /\ T.nodes[n].geometry.x = before.x
          /\ T.nodes[n].geometry.y = before.y
          /\ getNodeAbsolutePosition(T.nodes, n) = before
          /\ T.nodes[n].geometry.w = S.nodes[n].geometry.w
          /\ T.nodes[n].geometry.h = S.nodes[n].geometry.h
          /\ \A m \in DOMAIN S.nodes \ {n} : T.nodes[m] = S.nodes[m]
          /\ T.edges = S.edges
     ELSE T = S

\* C21: undockFromParent on a node with a parent sets parentId to null and
\* (x, y) to the previous absolute position, keeping absolute position, w and
\* h, and gives the store that commitDocking with a null candidate parent
\* gives; on a root node it changes nothing.
Cex_C21 ==
  \A n \in DOMAIN nodes :
    /\ UndockEffect(Store, n)
    /\ undockFromParent(Store, n) = commitDocking(Store, n, NULL)

\* C22: commitDocking with a candidate parent equal to the node's current
\* parentId leaves the whole store unchanged, and so does the end of a drag
\* whose potential parent is the current parent.
Thm_C22 ==
  /\ [](\A n \in DOMAIN nodes : commitDocking(Store, n, nodes[n].parentId) = Store)
  /\ [][\A n \in DOMAIN nodes :
          ( /\ lastOp'.op = "handleDragEnd" /\ lastOp'.id = n
            /\ potentialParent[n] = nodes[n].parentId )
          => /\ nodes' = nodes /\ edges' = edges
             /\ dbNodes' = dbNodes /\ dbEdges' = dbEdges]_vars

\* C22 witness: a drag of a node lying at an offset inside its container has
\* ended with that container as candidate, and nothing was written.
Wit_C22 ==
  \E n \in DOMAIN nodes :
    /\ lastOp = Op("handleDragEnd", n, FALSE)
    /\ nodes[n].parentId \in DOMAIN nodes
    /\ nodes[n].geometry.x # 0
    /\ getNodeAbsolutePosition(nodes, nodes[n].parentId).x # 0
    /\ findContainerAtPoint(nodes, Center2(nodes, n).x2, Center2(nodes, n).y2, n)
         = nodes[n].parentId

\* C23: every step of a docking (drag end) or an undocking that changes a
\* node's parentId changes its (x, y) in the same step of the in-memory store,
\* so that its absolute position is the same before and after: no state shows
\* the new parentId with the (x, y) of the old frame.
Thm_C23 ==
  [][\A n \in DOMAIN nodes :
       ( /\ lastOp'.op \in {"handleDragEnd", "undockFromParent"}
         /\ n \in DOMAIN nodes'
         /\ nodes'[n].parentId # nodes[n].parentId )
       => getNodeAbsolutePosition(nodes', n) = getNodeAbsolutePosition(nodes, n)]_vars

\* C23 witness: a drag end has just docked a node into a container that is
\* itself docked, and the node's (x, y) differs from its absolute position.
Wit_C23 ==
  \E n \in DOMAIN nodes :
    /\ lastOp = Op("handleDragEnd", n, TRUE)
    /\ nodes[n].parentId \in DOMAIN nodes
    /\ nodes[nodes[n].parentId].parentId \in DOMAIN nodes
    /\ getNodeAbsolutePosition(nodes, n).x # nodes[n].geometry.x

\* C24: clearAll empties the nodes and the edges in the step that calls it, and
\* in no state afterwards is one of the two collections empty while the other
\* holds an entry of the graph that was cleared.
Cex_C24 ==
  /\ [](~(nodes = Empty /\ \E e \in DOMAIN edges : e < cleared.eid))
  /\ [](~(edges = Empty /\ \E n \in DOMAIN nodes : n < cleared.nid))
  /\ [][lastOp'.op = "handleClear" => nodes' = Empty /\ edges' = Empty]_vars

\* C25: whenever no store operation is in flight, the persisted tables hold
\* exactly the nodes and the edges of the in-memory store, field for field.
Cex_C25 == tasks = <<>> => (dbNodes = nodes /\ dbEdges = edges)

\* No node of ns names as parent an id that is not in ns.
NoDanglingParent(ns) ==
  \A n \in DOMAIN ns : ns[n].parentId # NULL => ns[n].parentId \in DOMAIN ns

\* C26: when no store operation is in flight every non-null parentId refers to
\* a node of the store, and this is so again when an undo or a redo started
\* then has completed.
Cex_C26 ==
  tasks = <<>>
  => /\ NoDanglingParent(nodes)
     /\ canUndo(Hist) => NoDanglingParent(AfterRestore(-1).nodes)
     /\ canRedo(Hist) => NoDanglingParent(AfterRestore(1).nodes)

\* C27: a call of snapshot() made while isUndoRedoAction is true (here by the
\* debounce timer firing during a restoration) leaves history and
\* currentIndex unchanged.
Thm_C27 ==
  [][(lastOp'.op \in {"debounceTimer", "snapshot"} /\ isUndoRedoAction)
     => (history' = history /\ currentIndex' = currentIndex)]_vars

\* C27 witness: the timer has just fired while a restoration is in flight and
\* the guard is up, with a store that differs from the entry under the cursor
\* and a cursor that is not on the last entry.
Wit_C27 ==
  /\ lastOp = Op("debounceTimer", NULL, FALSE)
  /\ isUndoRedoAction
  /\ tasks # <<>>
  /\ currentIndex + 1 \in 1..Len(history)
  /\ currentIndex < Len(history) - 1
  /\ history[currentIndex + 1].nodes # nodes

\* C28, the transitions: isDragging of an instance becomes true only in a drag
\* start on a node of the store, and becomes false exactly in the drag end,
\* which is where commitDocking runs.
DragTransitions ==
  [][\A n \in NodeIds :
       /\ (~isDragging[n] /\ isDragging'[n])
            => (lastOp'.op = "handleDragStart" /\ lastOp'.id = n /\ n \in DOMAIN nodes)
       /\ (isDragging[n] /\ ~isDragging'[n])
            <=> (lastOp'.op = "handleDragEnd" /\ lastOp'.id = n)]_vars

\* C28: each drag follows Idle -> Dragging -> Idle with commitDocking at the
\* transition out of Dragging only, and an instance that is not dragging has
\* no potential parent.
Cex_C28 ==
  /\ DragTransitions
  /\ [](\A n \in NodeIds : ~isDragging[n] => potentialParent[n] = NULL)

\* C29: the snapshot captured by a resize-start on n has as keys exactly the
\* nodes that have n among their ancestors, each mapped to the geometry it has
\* at that moment; n itself and the other nodes are not in it.
Thm_C29 ==
  [][\A n \in DOMAIN nodes :
       (lastOp'.op = "handleResizeStart" /\ lastOp'.id = n)
       => /\ DOMAIN initialChildrenGeometry'
               = {c \in DOMAIN nodes : n \in Ancestors(nodes, c)}
          /\ \A c \in DOMAIN initialChildrenGeometry' :
               initialChildrenGeometry'[c] = nodes[c].geometry
          /\ n \notin DOMAIN initialChildrenGeometry']_vars

\* C29 witness: a resize-start on n has just captured a child and a
\* grandchild of n, the grandchild with a width an earlier resize gave it.
Wit_C29 ==
  \E n \in DOMAIN nodes, c \in DOMAIN nodes, g \in DOMAIN nodes :
    /\ lastOp = Op("handleResizeStart", n, FALSE)
    /\ nodes[c].parentId = n /\ nodes[g].parentId = c
    /\ DOMAIN initialChildrenGeometry = {c, g}
    /\ initialChildrenGeometry[g].w \notin {ShapeW, ContainerW}
    /\ initialChildrenGeometry[g] = nodes[g].geometry

\* C30: on a node whose chain of parentId leads to an id that is not in the
\* store, getNodeAbsolutePosition returns the sum of the relative (x, y) of the
\* node and of the ancestors met before that id; on an id that is not in the
\* store it returns (0, 0).
Thm_C30 ==
  /\ \A n \in DOMAIN nodes :
       LET met == Ancestors(nodes, n) \cap DOMAIN nodes
       IN getNodeAbsolutePosition(nodes, n) =
            [x |-> nodes[n].geometry.x + SumOver(nodes, met, "x"),
             y |-> nodes[n].geometry.y + SumOver(nodes, met, "y")]
  /\ \A id \in (1..AbsentId) \ DOMAIN nodes :
       getNodeAbsolutePosition(nodes, id) = [x |-> 0, y |-> 0]

\* C30 witness: n has just been created under a, and a names as parent an id
\* that is not in the store.
Wit_C30 ==
  \E n \in DOMAIN nodes, a \in DOMAIN nodes :
    /\ lastOp = Op("createNode", n, TRUE)
    /\ nodes[n].parentId = a
    /\ nodes[a].parentId # NULL
    /\ nodes[a].parentId \notin DOMAIN nodes
    /\ getNodeAbsolutePosition(nodes, n).x = nodes[n].geometry.x + nodes[a].geometry.x

\* Targets of an intersection, in half units: the centre and the x-corners of
\* every node (an edge is drawn toward the centre of its other end), the four
\* corners of every node, and a grid of points around and between the nodes.
TargetGrid2 == {-60, 77, 333}

IntersectionTargets(ns) ==
  ProbePoints(ns)
  \cup UNION {LET c == Center2(ns, m)
              IN {[x2 |-> c.x2 + sx * ns[m].geometry.w, y2 |-> c.y2 + sy * ns[m].geometry.h] :
                    sx \in {-1, 1}, sy \in {-1, 1}} : m \in DOMAIN ns}
  \cup {[x2 |-> gx, y2 |-> gy] : gx \in TargetGrid2, gy \in TargetGrid2}

\* The point p = (x, y) of an intersection lies on the boundary of the absolute
\* rectangle of node n and on the ray from its centre toward (tx2, ty2).
\* With vx = 2 * (p.x - cx) * den and vy likewise (both coordinates come over
\* the same denominator): |p.x - cx| <= w / 2 is |vx| <= w * den.
OnBoundaryTowards(ns, n, tx2, ty2, p) ==
  LET c == Center2(ns, n)
      w == ns[n].geometry.w
      h == ns[n].geometry.h
      vx == 2 * p.x.num - c.x2 * p.x.den
      vy == 2 * p.y.num - c.y2 * p.y.den
      dx2 == tx2 - c.x2
      dy2 == ty2 - c.y2
  IN /\ p.x.den > 0 /\ p.y.den > 0
     /\ Abs(vx) <= w * p.x.den
     /\ Abs(vy) <= h * p.y.den
     /\ (Abs(vx) = w * p.x.den \/ Abs(vy) = h * p.y.den)
     /\ p.x.den = p.y.den /\ vx * dy2 = vy * dx2
     /\ vx * dx2 >= 0 /\ vy * dy2 >= 0
     /\ (vx # 0 \/ vy # 0)

NoDanglingEdge(ns, es) ==
  \A e \in DOMAIN es : es[e].sourceId \in DOMAIN ns /\ es[e].targetId \in DOMAIN ns

\* C32: in every reachable state in which no store operation is in flight, the
\* sourceId and the targetId of every edge are ids of nodes of the store.
Cex_C32 == tasks = <<>> => NoDanglingEdge(nodes, edges)

\* Nodes that the suspended deleteNode t covers: the node it was called for and
\* those it has still to delete.
CoveredBy(t) == {t.id} \cup Range(t.toDelete)

\* The store after this step.
StoreAfter == [nodes |-> nodes', edges |-> edges', dbNodes |-> dbNodes', dbEdges |-> dbEdges']

\* C33: if createEdge(X, Y) or createNode(_, parentId = X) runs while a
\* deleteNode that covers X is between two of its awaited steps, then once that
\* deleteNode has completed no edge touches X and no node has X as parentId.
Cex_C33 ==
  [][\A i \in 1..Len(tasks) : \A X \in NodeIds :
       ( /\ tasks[i].op = "deleteNode"
         /\ X \in CoveredBy(tasks[i])
         /\ \/ /\ lastOp'.op = "finishConnection"
               /\ nextEdgeId \in DOMAIN edges'
               /\ Touches(edges'[nextEdgeId], {X})
            \/ /\ lastOp'.op = "createNode"
               /\ nodes'[nextNodeId].parentId = X )
       => LET T == deleteNodeRun(StoreAfter, tasks[i])
          IN /\ \A e \in DOMAIN T.edges : ~Touches(T.edges[e], {X})
             /\ \A m \in DOMAIN T.nodes : T.nodes[m].parentId # X]_vars

\* C34: isUndoRedoAction is true whenever at least one restoration is in
\* flight, also when undo or redo was invoked again before an earlier
\* restoration completed; and when the last restoration in flight completes,
\* the store equals the snapshot at the cursor position.
Cex_C34 ==
  /\ [](RestorationInFlight => isUndoRedoAction)
  /\ [][( /\ lastOp'.op = "restoreSnapshot:done"
          /\ \A i \in 1..Len(tasks') : tasks'[i].op # "restoreSnapshot" )
        => /\ nodes' = history'[currentIndex' + 1].nodes
           /\ edges' = history'[currentIndex' + 1].edges]_vars

\* C35: in every reachable state currentIndex is -1 when the history list is
\* empty, and otherwise 0 <= currentIndex <= length - 1, under any sequence
\* of snapshot, undo, redo and clearHistory, evicting snapshots included.
Thm_C35 ==
  IF history = <<>>
  THEN currentIndex = -1
  ELSE 0 <= currentIndex /\ currentIndex <= Len(history) - 1

\* C35 witness: clearHistory has just run while a restoration was in flight,
\* its snapshot() returned at the guard and the list is empty.
Wit_C35 ==
  /\ lastOp.op = "clearHistory"
  /\ RestorationInFlight
  /\ history = <<>>

\* The loop `while (current && current.parentId) current = nodes[current.parentId]`
\* of getNodeAbsolutePosition, isDescendantOf (for an ancestor it never meets)
\* and getNodeDepth, started on current, leaves the loop within fuel iterations.
\* A walk that meets no node twice makes fewer than Fuel(ns) + 1 iterations; one
\* that has not left the loop by then is on a cycle and never does.
RECURSIVE parentWalkEnds(_, _, _)
parentWalkEnds(ns, current, fuel) ==
  IF current \notin DOMAIN ns
  THEN TRUE
  ELSE IF ns[current].parentId = NULL
       THEN TRUE
       ELSE IF fuel = 0
            THEN FALSE
            ELSE parentWalkEnds(ns, ns[current].parentId, fuel - 1)

\* The recursion of collectChildren (deleteNode) and of collectChildrenGeometry
\* (resize start) from parentId bottoms out within fuel nested calls: at that
\* depth no child is left to descend into.
RECURSIVE collectEnds(_, _, _)
collectEnds(ns, parentId, fuel) ==
  LET children == {c \in DOMAIN ns : ns[c].parentId = parentId}
  IN IF fuel = 0
     THEN children = {}
     ELSE \A c \in children : collectEnds(ns, c, fuel - 1)

\* C36: in every state reached through createNode, docking, undocking and
\* deleteNode, the parent walks of getNodeAbsolutePosition, isDescendantOf and
\* getNodeDepth from every node, and the recursive child collection of
\* deleteNode and of resize start from every id, terminate.
Thm_C36 ==
  \A id \in NodeIds :
    /\ parentWalkEnds(nodes, id, Fuel(nodes))
    /\ collectEnds(nodes, id, Fuel(nodes))

\* C36 witness: a drag has just docked a container that holds a node, so that a
\* walk goes up two levels and a collection down two, and the walks end.
Wit_C36 ==
  \E N \in DOMAIN nodes, c \in DOMAIN nodes :
    /\ lastOp = Op("handleDragEnd", N, TRUE)
    /\ nodes[N].parentId \in DOMAIN nodes
    /\ nodes[c].parentId = N
    /\ getNodeDepth(nodes, c) = 2
    /\ Len(collectChildren(nodes, nodes[N].parentId, Fuel(nodes))) = 2
    /\ parentWalkEnds(nodes, c, Fuel(nodes))
    /\ collectEnds(nodes, nodes[N].parentId, Fuel(nodes))

\* C37: after any sequence of createGroup, addToGroup, removeFromGroup and
\* dissolveGroup, membership is consistent in both directions: the
\* data.groupId of a node is g if and only if group g exists and its nodeIds
\* contains the node.
Cex_C37 ==
  \A n \in DOMAIN nodes : \A g \in GroupIds :
    groupId(Groups, n) = g <=> (g \in DOMAIN groups /\ n \in groups[g])

\* C38: when paste returns, every id it returns and every id it puts in the
\* selection is the id of a node of the store, the copy of a copied node whose
\* parent was copied has the copy of that parent as parentId, and every copied
\* edge is in the store between the copies of its ends.
Cex_C38 ==
  [][( lastOp'.op = "paste:done" /\ pasting.active )
     => LET copyOf == pasting.idMapping
        IN /\ Range(pasted') \subseteq DOMAIN nodes'
           /\ Range(selectedNodeIds') \subseteq DOMAIN nodes'
           /\ \A i \in 1..Len(pasting.nodes) :
                LET n == pasting.nodes[i]
                IN (n.parentId \in DOMAIN copyOf)
                   => /\ copyOf[n.id] \in DOMAIN nodes'
                      /\ nodes'[copyOf[n.id]].parentId = copyOf[n.parentId]
           /\ \A i \in 1..Len(pasting.edges) :
                \E e \in DOMAIN edges' :
                  /\ edges'[e].sourceId = copyOf[pasting.edges[i].sourceId]
                  /\ edges'[e].targetId = copyOf[pasting.edges[i].targetId]]_vars


====
